---------------------------- MODULE CliTimerProofs ----------------------------
(***************************************************************************)
(* Proofs about CliTimer: the client and the server together take no step  *)
(* the server alone could not take, so that what TimerTransitionsProofs    *)
(* shows of it carries over; a stop of the client's is on disk before it   *)
(* takes effect; no interval is drafted twice; and no running timer of the *)
(* client's is forgotten.                                                  *)
(***************************************************************************)
EXTENDS CliTimer, TimerTransitionsProofs, FiniteSetTheorems

------------------------------------------------------------------------------
(* The invariant, part by part. *)

\* A timer ran as this id and revision.
Ran(timerId, revision) ==
    \E s \in sessions : s.timerId = timerId /\ s.revision = revision

\* The profile has moved on since that revision.
Over(revision) == Number(profile.timerRevision) > Number(revision)

StoppedIsOver == \A s \in sessions : s.stoppedAt # None => Over(s.revision)

StopSteps == {"track", "create", "journal", "stop", "stopping", "recovering"}

\* The request in a process's slot is the one the process is about.
SlotsMatch ==
    \A r \in Requests : cli[r] # None =>
        /\ cli[r].at \in {"post", "track", "create", "journal", "stop", "untrack"}
               => pc[r] = "idle"
        /\ cli[r].at \in {"journal", "stop", "stopping", "recovering"} => cli[r].draft \in Drafts
        /\ cli[r].at \in {"post", "posted", "unheard", "save", "clear", "track", "create"}
               => cli[r].draft = None
        /\ cli[r].at = "recovering" => cli[r].startTime = None
        /\ pc[r] # "idle" =>
               /\ req[r].timerId = cli[r].timerId
               /\ \/ /\ req[r].kind = "start"
                     /\ cli[r].at \in {"posted", "unheard", "save", "clear", "gone"}
                  \/ /\ req[r].kind = "stop"
                     /\ cli[r].at \in {"stopping", "recovering", "gone"}
                     /\ req[r].revision = cli[r].revision
                     /\ cli[r].draft \in Drafts

\* Nobody stops a timer that never ran.
StopsRan ==
    /\ \A r \in Requests :
           cli[r] # None /\ cli[r].at \in StopSteps => Ran(cli[r].timerId, cli[r].revision)
    /\ \A d \in Drafts :
           drafts[d] # None /\ drafts[d].status \in {"stopping", "outcome_unknown"}
               => Ran(drafts[d].timerId, drafts[d].revision)

\* The answer a process waits for is about its own timer.
AnswersFit ==
    \A r \in Requests : cli[r] # None /\ reply[r] # None =>
        /\ cli[r].at = "posted" =>
               \/ reply[r].outcome = "running" /\ reply[r].session.timerId = cli[r].timerId
               \/ reply[r].outcome = "consumed" /\ reply[r].operationId = cli[r].timerId
        /\ cli[r].at \in {"stopping", "recovering"} =>
               /\ reply[r].outcome = "stopped"
               /\ reply[r].session.timerId = cli[r].timerId
               /\ reply[r].session.revision = cli[r].revision

LinkInv == CliTypeOK /\ SlotsMatch /\ AnswersFit /\ StopsRan

\* Draft d holds the stop that process r is about.
Journals(d, r) ==
    /\ drafts[d] # None /\ drafts[d].status \in {"stopping", "outcome_unknown"}
    /\ drafts[d].timerId = cli[r].timerId
    /\ drafts[d].revision = cli[r].revision

DraftsHeld ==
    \A r \in Requests : cli[r] # None /\ cli[r].draft # None =>
        /\ drafts[cli[r].draft] # None
        /\ cli[r].at = "journal" => drafts[cli[r].draft].status = "pending_stop"
        /\ cli[r].at \in {"stop", "stopping", "recovering"} => Journals(cli[r].draft, r)
        /\ cli[r].at = "gone" => Journals(cli[r].draft, r) \/ Over(cli[r].revision)
        /\ \A q \in Requests \ {r} :
               cli[r].at # "gone" /\ cli[q] # None /\ cli[q].at # "gone"
                   => cli[q].draft # cli[r].draft

JournalInv == StoppedIsOver /\ DraftsHeld

\* The client was told that this request of its ended the timer.
Claims(r) == At(r, "stopping") /\ Answered(r) /\ reply[r].changed

Pending(d) == drafts[d] # None /\ drafts[d].status = "pending"

DraftedInv ==
    /\ \A d \in Drafts : Pending(d) => drafts[d].interval \in sessions
    /\ \A d, e \in Drafts : Pending(d) /\ Pending(e) /\ d # e
           => drafts[d].interval.revision # drafts[e].interval.revision
    /\ \A r \in Requests, d \in Drafts : Claims(r) /\ Pending(d)
           => drafts[d].interval.revision # cli[r].revision
    /\ \A r, q \in Requests : Claims(r) /\ Claims(q) /\ r # q
           => cli[r].revision # cli[q].revision

Unstarted(o) == \A s \in sessions : s.timerId # o

Finished(o) == \E s \in sessions : s.timerId = o /\ s.stoppedAt # None

\* Slot q may still start operation o.
MayStart(q, o) ==
    \/ pc[q] # "idle" /\ req[q].kind = "start" /\ req[q].timerId = o
    \/ At(q, "post") /\ cli[q].timerId = o

\* An operation of the client's is one it knows, or one that was issued to begin with.
IdKnown(r) ==
    cli[r] # None =>
        \/ started[cli[r].timerId] # "unknown"
        \/ issued[cli[r].timerId] # None /\ cli[r].at # "post"

IdsKnown ==
    /\ pendingStart # None => started[pendingStart] # "unknown"
    /\ \A r \in Requests : IdKnown(r)

\* r is at the first attempt of an operation nobody else has replayed.
FirstTry(r) == /\ cli[r] # None /\ cli[r].at # "gone" /\ cli[r].fresh
               /\ started[cli[r].timerId] = "reserved"

\* Before it has an answer the operation has not started.
NotYet(r) ==
    FirstTry(r) =>
        /\ cli[r].at = "post" => Unstarted(cli[r].timerId)
        /\ cli[r].at \in {"posted", "clear"} /\ reply[r] = None => Unstarted(cli[r].timerId)
        /\ cli[r].at = "posted" => pc[r] # "lost"

FirstAlone ==
    \A r \in Requests :
        /\ NotYet(r)
        /\ FirstTry(r) => \A q \in Requests \ {r} : ~MayStart(q, cli[r].timerId)

\* What clears a reservation: the refusal of a first attempt, or the end of its timer.
Clears(r) ==
    /\ At(r, "posted") /\ reply[r] # None =>
           (reply[r].outcome = "consumed" => Finished(cli[r].timerId))
    /\ At(r, "clear") /\ started[cli[r].timerId] = "reserved" =>
           /\ pc[r] = "idle"
           /\ reply[r] = None => cli[r].fresh
           /\ reply[r] # None => Finished(cli[r].timerId)

ReservedIsKept ==
    /\ \A o \in Operations : started[o] = "reserved" => pendingStart = o \/ Finished(o)
    /\ \A r \in Requests : Clears(r)

RefusedNeverStarts ==
    \A o \in Operations : started[o] = "refused" =>
        /\ Unstarted(o)
        /\ pendingStart # o
        /\ \A q \in Requests : ~MayStart(q, o)

RememberedInv == IdsKnown /\ FirstAlone /\ ReservedIsKept /\ RefusedNeverStarts

------------------------------------------------------------------------------
(* What a step of the server does to a slot, and to the timers that ran. *)

LEMMA ServeIsProgress ==
    ASSUME NEW r \in Requests, Serve(r)
    PROVE  Progress(r)
  BY DEF Serve, Respond, Break, Progress

\* A request goes on as it is, or it is over; the other slots are left alone.
LEMMA SlotStep ==
    ASSUME IInv, NEW r \in Requests, Progress(r)
    PROVE  /\ pc[r] # "idle" /\ reply[r] = None
           /\ \A q \in Requests \ {r} :
                  pc'[q] = pc[q] /\ req'[q] = req[q] /\ reply'[q] = reply[q]
           /\ \/ pc'[r] = "idle"
              \/ /\ pc'[r] # "idle" /\ reply'[r] = None
                 /\ req[r].kind # "legacyStop" =>
                        /\ req'[r].kind = req[r].kind
                        /\ req'[r].timerId = req[r].timerId
                        /\ req'[r].revision = req[r].revision
                 /\ req[r].kind = "legacyStop" => req'[r].kind # "start"
           /\ UNCHANGED <<clock, issued>>
<1> USE TimerAssumption
<1>1. /\ pc \in [Requests -> Pcs] /\ reply \in [Requests -> Reply]
      /\ req \in [Requests -> Request \union {None}]
      /\ pc[r] # "idle" => req[r] \in Request /\ reply[r] = None
  BY DEF IInv, TypeOK, Kinds
<1>2. ASSUME NEW message, Answer(r, message)
      PROVE  /\ pc'[r] = "idle"
             /\ \A q \in Requests \ {r} :
                    pc'[q] = pc[q] /\ req'[q] = req[q] /\ reply'[q] = reply[q]
  BY <1>1, <1>2 DEF Answer
<1>3. ASSUME NEW label \in Pcs \ {"idle"}, pc' = [pc EXCEPT ![r] = label], UNCHANGED reply,
             NEW instant, \/ UNCHANGED req
                          \/ req' = [req EXCEPT ![r].instant = instant], pc[r] # "idle"
      PROVE  /\ pc'[r] # "idle" /\ reply'[r] = None
             /\ req'[r].kind = req[r].kind
             /\ req'[r].timerId = req[r].timerId /\ req'[r].revision = req[r].revision
             /\ \A q \in Requests \ {r} :
                    pc'[q] = pc[q] /\ req'[q] = req[q] /\ reply'[q] = reply[q]
  BY <1>1, <1>3 DEF Request
<1>4. CASE ReadForStart(r)
  BY <1>1, <1>2, <1>3, <1>4 DEF ReadForStart, Proceed, Pcs
<1>5. CASE CasStart(r)
  BY <1>1, <1>2, <1>3, <1>5 DEF CasStart, Pcs
<1>6. CASE Classify(r)
  BY <1>1, <1>2, <1>6 DEF Classify
<1>7. CASE ReadForLegacyStop(r)
  BY <1>1, <1>2, <1>7 DEF ReadForLegacyStop, Request
<1>8. CASE ReadForStop(r)
  BY <1>1, <1>2, <1>3, <1>8 DEF ReadForStop, Proceed, Pcs
<1>9. CASE CasStop(r)
  BY <1>1, <1>2, <1>9 DEF CasStop
<1>10. CASE Fail(r)
  BY <1>1, <1>2, <1>3, <1>10 DEF Fail, Pcs
<1>11. CASE LandLate(r)
  BY <1>1, <1>2, <1>11 DEF LandLate
<1> QED
  BY <1>4, <1>5, <1>6, <1>7, <1>8, <1>9, <1>10, <1>11 DEF Progress

\* A start, or a stop, takes effect.
StartLands(r) == /\ pc[r] \in {"starting", "lost"} /\ req[r].kind = "start"
                 /\ StartSnapshot(r) /\ WriteStart(r)

StopLands(r) == /\ pc[r] \in {"stopping", "lost"} /\ req[r].kind = "stop"
                /\ Snapshot(r) /\ WriteStop(r)

\* Nothing else changes the timer.
LEMMA OnlyLandingsMove ==
    ASSUME IInv, [Next]_vars
    PROVE  \/ UNCHANGED <<profile, sessions>>
           \/ \E r \in Requests : /\ Progress(r) /\ StartLands(r) /\ pc'[r] = "idle"
                                  /\ reply'[r] # None \/ pc[r] = "lost"
           \/ \E r \in Requests : Progress(r) /\ StopLands(r) /\ pc'[r] = "idle"
<1>1. pc \in [Requests -> Pcs] /\ reply \in [Requests -> Reply]
  BY DEF IInv, TypeOK
<1>2. ASSUME NEW r \in Requests, CasStart(r)
      PROVE  \/ UNCHANGED <<profile, sessions>>
             \/ /\ Progress(r) /\ StartLands(r) /\ pc'[r] = "idle"
                /\ reply'[r] # None
  <2>1. CASE ~StartSnapshot(r)
    BY <1>2, <2>1 DEF CasStart
  <2>2. CASE StartSnapshot(r)
    <3>1. /\ Progress(r) /\ StartLands(r) /\ pc'[r] = "idle"
          /\ reply'[r] = [outcome |-> "running", session |-> Started(r)]
      BY <1>1, <1>2, <2>2 DEF CasStart, Answer, StartLands, Progress, IInv, Kinds
    <3>2. Started(r) \in Session
      BY <3>1, WriteStartSafe DEF StartLands
    <3>3. reply'[r] \in [outcome: {"running"}, session: Session]
      BY <3>1, <3>2
    <3> QED
      BY <3>1, <3>3, CliAssumption
  <2> QED
    BY <2>1, <2>2
<1>3. ASSUME NEW r \in Requests, CasStop(r)
      PROVE  \/ UNCHANGED <<profile, sessions>>
             \/ Progress(r) /\ StopLands(r) /\ pc'[r] = "idle"
  BY <1>1, <1>3 DEF CasStop, Answer, StopLands, Progress, IInv, Kinds
<1>4. ASSUME NEW r \in Requests, LandLate(r)
      PROVE  \/ UNCHANGED <<profile, sessions>>
             \/ Progress(r) /\ StartLands(r) /\ pc'[r] = "idle" /\ pc[r] = "lost"
             \/ Progress(r) /\ StopLands(r) /\ pc'[r] = "idle"
  BY <1>1, <1>4 DEF LandLate, Answer, StartLands, StopLands, Progress
<1>5. ASSUME NEW r \in Requests, \/ ReadForStart(r) \/ Classify(r) \/ ReadForLegacyStop(r)
                                 \/ ReadForStop(r) \/ Fail(r) \/ Arrive(r)
      PROVE  UNCHANGED <<profile, sessions>>
  BY <1>5
  DEF ReadForStart, Classify, ReadForLegacyStop, ReadForStop, Fail, Arrive, SendStart,
      RepeatStart, SendStop, SendLegacyStop, Send
<1> QED
  BY <1>2, <1>3, <1>4, <1>5 DEF Next, Progress, Tick, vars

\* Timers that ran are kept, a stop time once set is final, and revisions grow.
LEMMA TimersMove ==
    ASSUME IInv, [Next]_vars
    PROVE  /\ \A s \in sessions : s.stoppedAt # None => s \in sessions'
           /\ \A s \in sessions :
                  \E t \in sessions' : t.timerId = s.timerId /\ t.revision = s.revision
           /\ Number(profile.timerRevision) \in Nat /\ Number(profile'.timerRevision) \in Nat
           /\ Number(profile'.timerRevision) >= Number(profile.timerRevision)
<1> USE TimerAssumption
<1>0. Number(profile.timerRevision) \in Nat
  BY DEF IInv, TypeOK, Profile, Revisions, Number
<1>1. CASE UNCHANGED <<profile, sessions>>
  BY <1>0, <1>1
<1>2. ASSUME NEW r \in Requests, StartLands(r)
      PROVE  /\ sessions \subseteq sessions'
             /\ Number(profile'.timerRevision) = Number(profile.timerRevision) + 1
  BY <1>2, WriteStartSafe DEF StartLands
<1>3. ASSUME NEW r \in Requests, StopLands(r)
      PROVE  /\ \A s \in sessions : s.stoppedAt # None => s \in sessions'
             /\ \A s \in sessions :
                    \E t \in sessions' : t.timerId = s.timerId /\ t.revision = s.revision
             /\ Number(profile'.timerRevision) = Number(profile.timerRevision) + 1
  <2>1. /\ sessions' = (sessions \ {Running}) \union {Stopped(r)}
        /\ Running.stoppedAt = None
        /\ Stopped(r) = [Running EXCEPT !.stoppedAt = req[r].instant]
        /\ Number(profile'.timerRevision) = Number(profile.timerRevision) + 1
    BY <1>3, WriteStopSafe DEF StopLands
  <2>2. Stopped(r).timerId = Running.timerId /\ Stopped(r).revision = Running.revision
    BY <2>1 DEF Running
  <2> QED
    BY <2>1, <2>2
<1> QED
  BY <1>0, <1>1, <1>2, <1>3, OnlyLandingsMove

------------------------------------------------------------------------------
(* The client and the server together implement the server's specification. *)

\* A timer that ran is not forgotten.
LEMMA RanStays ==
    ASSUME IInv, [Next]_vars, NEW timerId, NEW revision, Ran(timerId, revision)
    PROVE  Ran(timerId, revision)'
<1>1. \E t \in sessions' : t.timerId = timerId /\ t.revision = revision
  BY TimersMove DEF Ran
<1> QED
  BY <1>1 DEF Ran

\* Every step of the composition is one of the server's, or leaves it alone.
LEMMA StepTimer ==
    ASSUME IInv, LinkInv, [CliNext]_cliVars
    PROVE  [Next]_vars
<1> USE TimerAssumption
<1>1. ASSUME NEW timerId, NEW revision, NEW r \in Requests, Ran(timerId, revision),
             SendStop(r, [timerId |-> timerId, revision |-> revision])
      PROVE  Next
  <2>1. PICK s \in sessions : s.timerId = timerId /\ s.revision = revision
    BY <1>1 DEF Ran
  <2>2. SendStop(r, s)
    BY <1>1, <2>1 DEF SendStop
  <2> QED
    BY <2>2 DEF Next, Arrive
<1>2. ASSUME NEW r \in Requests, PostStop(r)
      PROVE  Next
  BY <1>1, <1>2 DEF PostStop, At, LinkInv, StopsRan, StopSteps
<1>3. ASSUME NEW r \in Requests, NEW d \in Drafts, RecoverStop(r, d)
      PROVE  Next
  BY <1>1, <1>3 DEF RecoverStop, LinkInv, StopsRan
<1>4. ASSUME NEW r \in Requests, PostStart(r)
      PROVE  Next
  <2>1. cli[r].timerId \in Operations
    BY <1>4 DEF PostStart, At, LinkInv, CliTypeOK, Process
  <2> QED
    BY <1>4, <2>1 DEF PostStart, Next, Arrive
<1>5. ASSUME NEW r \in Requests, Serve(r)
      PROVE  Next
  BY <1>5, ServeIsProgress DEF Next
<1>6. ASSUME NEW r \in Requests, Device(r)
      PROVE  Next
  BY <1>6 DEF Device, Next
<1> QED
  BY <1>2, <1>3, <1>4, <1>5, <1>6
  DEF CliNext, cliVars, Client, Tick, Next, Reserve, Resume, Find, FindStarted, Refused, SaveActive,
      ClearPending, CaptureStop, MarkActive, CreateDraft, JournalStop, LoseStopAnswer,
      FinalizeStop, Untrack, Quit

------------------------------------------------------------------------------
(* How a process moves. *)

LEMMA Launching ==
    ASSUME CliTypeOK, NEW r \in Requests, NEW process \in Process, Launch(r, process)
    PROVE  /\ cli' \in [Requests -> Process \union {None}]
           /\ cli[r] = None /\ pc[r] = "idle" /\ cli'[r] = process /\ process # None
           /\ \A q \in Requests \ {r} : cli'[q] = cli[q]
  BY CliAssumption DEF Launch, Free, CliTypeOK

LEMMA Going ==
    ASSUME CliTypeOK, NEW r \in Requests, cli[r] # None, NEW step \in Steps, Goes(r, step)
    PROVE  /\ cli' \in [Requests -> Process \union {None}]
           /\ cli'[r] # None /\ cli'[r].at = step
           /\ cli'[r].timerId = cli[r].timerId /\ cli'[r].revision = cli[r].revision
           /\ cli'[r].startTime = cli[r].startTime /\ cli'[r].fresh = cli[r].fresh
           /\ cli'[r].draft = cli[r].draft
           /\ \A q \in Requests \ {r} : cli'[q] = cli[q]
<1>1. cli[r] \in Process /\ cli \in [Requests -> Process \union {None}]
  BY DEF CliTypeOK
<1>2. [cli[r] EXCEPT !.at = step] \in Process
  BY <1>1 DEF Process
<1>3. cli' = [cli EXCEPT ![r] = [cli[r] EXCEPT !.at = step]]
  BY DEF Goes
<1>4. cli'[r] = [cli[r] EXCEPT !.at = step]
  BY <1>1, <1>3
<1> QED
  BY <1>1, <1>2, <1>3, <1>4, CliAssumption DEF Process

LEMMA Ending ==
    ASSUME CliTypeOK, NEW r \in Requests, cli[r] # None, cli' = Ended(r)
    PROVE  /\ cli' \in [Requests -> Process \union {None}]
           /\ pc[r] = "idle" => cli'[r] = None
           /\ pc[r] # "idle" =>
                  /\ cli'[r] # None /\ cli'[r].at = "gone"
                  /\ cli'[r].timerId = cli[r].timerId /\ cli'[r].revision = cli[r].revision
                  /\ cli'[r].draft = cli[r].draft
           /\ \A q \in Requests \ {r} : cli'[q] = cli[q]
<1>1. cli[r] \in Process /\ cli \in [Requests -> Process \union {None}]
  BY DEF CliTypeOK
<1>2. CASE pc[r] = "idle"
  BY <1>1, <1>2 DEF Ended
<1>3. CASE pc[r] # "idle"
  <2>1. cli' = [cli EXCEPT ![r] = [cli[r] EXCEPT !.at = "gone"]]
    BY <1>3 DEF Ended
  <2>2. Goes(r, "gone") /\ "gone" \in Steps
    BY <2>1 DEF Goes, Steps
  <2> QED
    BY <1>3, <2>2, Going
<1> QED
  BY <1>2, <1>3

LEMMA DraftsTyped ==
    /\ \A o \in Operations : [status |-> "pending_stop", timerId |-> o] \in Draft
    /\ \A o \in Operations, v \in Revisions,
          status \in {"stopping", "outcome_unknown", "discarded"} :
              [status |-> status, timerId |-> o, revision |-> v] \in Draft
    /\ \A i \in Receipt : [status |-> "pending", interval |-> i] \in Draft
  BY DEF Draft

\* An answer is of the kind its request asks for.
LEMMA AnswerFits ==
    ASSUME IInv, NEW r \in Requests, Progress(r), reply'[r] # None
    PROVE  /\ pc[r] \notin {"idle", "lost"} /\ pc'[r] = "idle"
           /\ \/ /\ req[r].kind = "start" /\ reply'[r].outcome = "running"
                 /\ reply'[r].session.timerId = req[r].timerId
              \/ /\ req[r].kind = "start" /\ reply'[r].outcome = "consumed"
                 /\ reply'[r].operationId = req[r].timerId
              \/ /\ req[r].kind = "stop" /\ reply'[r].outcome = "stopped"
                 /\ reply'[r].session.timerId = req[r].timerId
                 /\ reply'[r].session.revision = req[r].revision
<1>1. [Next]_vars
  BY DEF Next
<1>2. reply'[r] \in Reply /\ pc[r] \in Pcs
  BY <1>1, StepIInv DEF IInv, TypeOK
<1>3. pc[r] # "idle" /\ pc'[r] = "idle"
  BY SlotStep
<1>4. CASE pc[r] = "lost"
  <2>1. LandLate(r)
    BY <1>4
    DEF Progress, ReadForStart, CasStart, Classify, ReadForLegacyStop, ReadForStop, CasStop, Fail
  <2> QED
    BY <2>1 DEF LandLate, Answer, IInv, TypeOK
<1>5. CASE pc[r] # "lost"
  BY <1>1, <1>2, <1>3, <1>5, StepNamed DEF NamesItsTimer, Pcs, Reply
<1> QED
  BY <1>4, <1>5

\* An answered stop is told the receipt of a timer that ran.
LEMMA AnsweredReceipt ==
    ASSUME IInv, AnswersFit, NEW r \in Requests,
           At(r, "stopping") \/ At(r, "recovering"), Answered(r)
    PROVE  /\ reply[r] # None /\ reply[r].outcome = "stopped"
           /\ reply[r].session \in Receipt /\ reply[r].session \in sessions
<1>1. reply[r] # None /\ reply[r].outcome = "stopped" /\ reply[r] \in Reply
  BY DEF At, Answered, AnswersFit, IInv, TypeOK
<1>2. reply[r].session \in Receipt
  BY <1>1 DEF Reply
<1>3. reply[r].session \in sessions
  BY <1>1 DEF IInv, RepliesTrue, HasHappened
<1> QED
  BY <1>1, <1>2, <1>3

\* The journaled stop of a draft is well-formed.
LEMMA JournaledTyped ==
    ASSUME CliTypeOK, NEW d \in Drafts, drafts[d] # None,
           drafts[d].status \in {"stopping", "outcome_unknown"}
    PROVE  drafts[d].timerId \in Operations /\ drafts[d].revision \in Revisions
  BY DEF CliTypeOK, Draft

LEMMA InitLink == CliInit => LinkInv
  BY TimerAssumption, CliAssumption, FS_EmptySet
  DEF CliInit, Init, LinkInv, CliTypeOK, SlotsMatch, AnswersFit, StopsRan, Knowledge

\* The composition keeps the processes, their requests and their answers matched.
LEMMA StepLink ==
    ASSUME IInv, LinkInv, [CliNext]_cliVars
    PROVE  LinkInv'
<1> USE TimerAssumption, CliAssumption DEF LinkInv
<1>0. /\ [Next]_vars
      /\ profile \in Profile /\ pc \in [Requests -> Pcs] /\ reply \in [Requests -> Reply]
      /\ req \in [Requests -> Request \union {None}] /\ sessions \subseteq Session
  BY StepTimer DEF IInv, TypeOK
<1>a. \A timerId, revision : Ran(timerId, revision) => Ran(timerId, revision)'
  BY <1>0, RanStays
<1>1. ASSUME NEW r \in Requests, NEW o \in Operations, Reserve(r, o)
      PROVE  LinkInv'
  <2> DEFINE new == Starter(o, "post", TRUE)
  <2>1. new \in Process
    BY <1>0, <1>1 DEF Reserve, Process, Steps, Starter, Times, Revisions
  <2>2. Launch(r, new)
    BY <1>1 DEF Reserve
  <2>3. new.at = "post" /\ new.draft = None
    BY DEF Starter
  <2> HIDE DEF new
  <2>4. CliTypeOK'
    BY <1>0, <1>1, <2>1, <2>2, <2>3, Launching
    DEF Reserve, CliTypeOK, Process, Steps, Knowledge, filesVars, vars, Profile, TimerIds
  <2>5. SlotsMatch'
    BY <1>0, <1>1, <2>1, <2>2, <2>3, Launching DEF Reserve, SlotsMatch, CliTypeOK, filesVars, vars
  <2>6. AnswersFit'
    BY <1>0, <1>1, <2>1, <2>2, <2>3, Launching DEF Reserve, AnswersFit, CliTypeOK, filesVars, vars
  <2>7. StopsRan'
    BY <1>0, <1>1, <2>1, <2>2, <2>3, Launching, <1>a DEF Reserve, StopsRan, StopSteps, CliTypeOK, filesVars, vars
  <2> QED
    BY <2>4, <2>5, <2>6, <2>7
<1>2. ASSUME NEW r \in Requests, Resume(r)
      PROVE  LinkInv'
  <2> DEFINE new == Starter(pendingStart, "post", FALSE)
  <2>1. new \in Process
    BY <1>0, <1>2 DEF Resume, CliTypeOK, Process, Steps, Starter, Times, Revisions
  <2>2. Launch(r, new)
    BY <1>2 DEF Resume
  <2>3. new.at = "post" /\ new.draft = None
    BY DEF Starter
  <2> HIDE DEF new
  <2>4. CliTypeOK'
    BY <1>0, <1>2, <2>1, <2>2, <2>3, Launching
    DEF Resume, CliTypeOK, Process, Steps, Knowledge, filesVars, vars, Profile, TimerIds
  <2>5. SlotsMatch'
    BY <1>0, <1>2, <2>1, <2>2, <2>3, Launching DEF Resume, SlotsMatch, CliTypeOK, filesVars, vars
  <2>6. AnswersFit'
    BY <1>0, <1>2, <2>1, <2>2, <2>3, Launching DEF Resume, AnswersFit, CliTypeOK, filesVars, vars
  <2>7. StopsRan'
    BY <1>0, <1>2, <2>1, <2>2, <2>3, Launching, <1>a DEF Resume, StopsRan, StopSteps, CliTypeOK, filesVars, vars
  <2> QED
    BY <2>4, <2>5, <2>6, <2>7
<1>3. ASSUME NEW r \in Requests, Find(r)
      PROVE  LinkInv'
  <2> DEFINE new == Starter(profile.timerId, "save", FALSE)
  <2>1. new \in Process
    BY <1>0, <1>3 DEF Find, activeTimer, Profile, TimerIds, Process, Steps, Starter, Times, Revisions
  <2>2. Launch(r, new)
    BY <1>3 DEF Find
  <2>3. new.at = "save" /\ new.draft = None
    BY DEF Starter
  <2> HIDE DEF new
  <2>4. CliTypeOK'
    BY <1>0, <1>3, <2>1, <2>2, <2>3, Launching
    DEF Find, CliTypeOK, Process, Steps, Knowledge, filesVars, vars, Profile, TimerIds
  <2>5. SlotsMatch'
    BY <1>0, <1>3, <2>1, <2>2, <2>3, Launching DEF Find, SlotsMatch, CliTypeOK, filesVars, vars
  <2>6. AnswersFit'
    BY <1>0, <1>3, <2>1, <2>2, <2>3, Launching DEF Find, AnswersFit, CliTypeOK, filesVars, vars
  <2>7. StopsRan'
    BY <1>0, <1>3, <2>1, <2>2, <2>3, Launching, <1>a DEF Find, StopsRan, StopSteps, CliTypeOK, filesVars, vars
  <2> QED
    BY <2>4, <2>5, <2>6, <2>7
<1>4. ASSUME NEW r \in Requests, PostStart(r)
      PROVE  LinkInv'
  <2>0. cli[r] \in Process /\ cli[r].timerId \in Operations /\ cli[r].revision \in Revisions
    BY <1>4 DEF PostStart, At, CliTypeOK, Process
  <2>1. cli[r] # None /\ Goes(r, "posted") /\ "posted" \in Steps
    BY <1>4 DEF PostStart, At, Steps
  <2>4. CliTypeOK'
    BY <1>0, <1>4, <2>1, Going, <2>0
    DEF PostStart, SendStart, RepeatStart, Send, At, CliTypeOK, Process, Steps, Knowledge, filesVars, vars, Profile, TimerIds
  <2>5. SlotsMatch'
    BY <1>0, <1>4, <2>1, Going DEF PostStart, SendStart, RepeatStart, Send, At, SlotsMatch, CliTypeOK, filesVars, vars
  <2>6. AnswersFit'
    BY <1>0, <1>4, <2>1, Going DEF PostStart, SendStart, RepeatStart, Send, At, AnswersFit, CliTypeOK, filesVars, vars
  <2>7. StopsRan'
    BY <1>0, <1>4, <2>1, Going, <1>a DEF PostStart, SendStart, RepeatStart, Send, At, StopsRan, StopSteps, CliTypeOK, filesVars, vars
  <2> QED
    BY <2>4, <2>5, <2>6, <2>7
<1>5. ASSUME NEW r \in Requests, FindStarted(r)
      PROVE  LinkInv'
  <2>0. cli[r] \in Process /\ cli[r].timerId \in Operations /\ cli[r].revision \in Revisions
    BY <1>5 DEF FindStarted, At, CliTypeOK, Process
  <2>1. cli[r] # None /\ Goes(r, "save") /\ "save" \in Steps
    BY <1>5 DEF FindStarted, At, Steps
  <2>4. CliTypeOK'
    BY <1>0, <1>5, <2>1, Going, <2>0
    DEF FindStarted, At, CliTypeOK, Process, Steps, Knowledge, filesVars, vars, Profile, TimerIds
  <2>5. SlotsMatch'
    BY <1>0, <1>5, <2>1, Going DEF FindStarted, At, SlotsMatch, CliTypeOK, filesVars, vars
  <2>6. AnswersFit'
    BY <1>0, <1>5, <2>1, Going DEF FindStarted, At, AnswersFit, CliTypeOK, filesVars, vars
  <2>7. StopsRan'
    BY <1>0, <1>5, <2>1, Going, <1>a DEF FindStarted, At, StopsRan, StopSteps, CliTypeOK, filesVars, vars
  <2> QED
    BY <2>4, <2>5, <2>6, <2>7
<1>6. ASSUME NEW r \in Requests, Refused(r)
      PROVE  LinkInv'
  <2>0. cli[r] \in Process /\ cli[r].timerId \in Operations /\ cli[r].revision \in Revisions
    BY <1>6 DEF Refused, At, CliTypeOK, Process
  <2>1. cli[r] # None /\ Goes(r, "clear") /\ "clear" \in Steps
    BY <1>6 DEF Refused, At, Steps
  <2>4. CliTypeOK'
    BY <1>0, <1>6, <2>1, Going, <2>0
    DEF Refused, At, CliTypeOK, Process, Steps, Knowledge, filesVars, vars, Profile, TimerIds
  <2>5. SlotsMatch'
    BY <1>0, <1>6, <2>1, Going DEF Refused, At, SlotsMatch, CliTypeOK, filesVars, vars
  <2>6. AnswersFit'
    BY <1>0, <1>6, <2>1, Going DEF Refused, At, AnswersFit, CliTypeOK, filesVars, vars
  <2>7. StopsRan'
    BY <1>0, <1>6, <2>1, Going, <1>a DEF Refused, At, StopsRan, StopSteps, CliTypeOK, filesVars, vars
  <2> QED
    BY <2>4, <2>5, <2>6, <2>7
<1>7. ASSUME NEW r \in Requests, SaveActive(r)
      PROVE  LinkInv'
  <2>0. cli[r] \in Process /\ cli[r].timerId \in Operations /\ cli[r].revision \in Revisions
    BY <1>7 DEF SaveActive, At, CliTypeOK, Process
  <2>1. cli[r] # None /\ Goes(r, "clear") /\ "clear" \in Steps
    BY <1>7 DEF SaveActive, At, Steps
  <2>2. activeFile' = {cli[r].timerId}
    BY <1>7 DEF SaveActive
  <2>3. activeFile' \in SUBSET Operations /\ Cardinality(activeFile') <= 1
    <3>1. Cardinality(activeFile') = 1
      BY <2>2, FS_Singleton
    <3> QED
      BY <2>0, <2>2, <3>1
  <2>4. CliTypeOK'
    BY <1>7, <2>0, <2>1, <2>3, Going DEF SaveActive, CliTypeOK, Knowledge, filesVars, vars
  <2>5. SlotsMatch'
    BY <1>0, <1>7, <2>1, Going DEF SaveActive, At, SlotsMatch, CliTypeOK, filesVars, vars
  <2>6. AnswersFit'
    BY <1>0, <1>7, <2>1, Going DEF SaveActive, At, AnswersFit, CliTypeOK, filesVars, vars
  <2>7. StopsRan'
    BY <1>0, <1>7, <2>1, Going, <1>a DEF SaveActive, At, StopsRan, StopSteps, CliTypeOK, filesVars, vars
  <2> QED
    BY <2>4, <2>5, <2>6, <2>7
<1>8. ASSUME NEW r \in Requests, ClearPending(r)
      PROVE  LinkInv'
  <2>0. cli[r] \in Process /\ cli[r].timerId \in Operations /\ cli[r].revision \in Revisions
    BY <1>8 DEF ClearPending, At, CliTypeOK, Process
  <2>1. cli[r] # None /\ cli' = Ended(r)
    BY <1>8 DEF ClearPending, At
  <2>4. CliTypeOK'
    BY <1>0, <1>8, <2>1, Ending, <2>0
    DEF ClearPending, At, CliTypeOK, Process, Steps, Knowledge, filesVars, vars, Profile, TimerIds
  <2>5. SlotsMatch'
    BY <1>0, <1>8, <2>1, Ending DEF ClearPending, At, SlotsMatch, CliTypeOK, filesVars, vars
  <2>6. AnswersFit'
    BY <1>0, <1>8, <2>1, Ending DEF ClearPending, At, AnswersFit, CliTypeOK, filesVars, vars
  <2>7. StopsRan'
    BY <1>0, <1>8, <2>1, Ending, <1>a DEF ClearPending, At, StopsRan, StopSteps, CliTypeOK, filesVars, vars
  <2> QED
    BY <2>4, <2>5, <2>6, <2>7
<1>9. ASSUME NEW r \in Requests, CaptureStop(r)
      PROVE  LinkInv'
  <2> DEFINE new == [at |-> "track", timerId |-> profile.timerId,
                    revision |-> profile.timerRevision, startTime |-> profile.timer,
                    fresh |-> FALSE, draft |-> None]
  <2>1. new \in Process
    BY <1>0, <1>9 DEF CaptureStop, activeTimer, Profile, TimerIds, Revisions, Times, Process, Steps, Times, Revisions
  <2>2. Launch(r, new)
    BY <1>9 DEF CaptureStop
  <2>3. /\ new.at = "track" /\ new.draft = None /\ new.timerId = profile.timerId
        /\ new.revision = profile.timerRevision
        /\ Ran(profile.timerId, profile.timerRevision)
    BY <1>9 DEF CaptureStop, Ran, Running, IInv, SessionsMatch
  <2> HIDE DEF new
  <2>4. CliTypeOK'
    BY <1>0, <1>9, <2>1, <2>2, <2>3, Launching
    DEF CaptureStop, CliTypeOK, Process, Steps, Knowledge, filesVars, vars, Profile, TimerIds
  <2>5. SlotsMatch'
    BY <1>0, <1>9, <2>1, <2>2, <2>3, Launching DEF CaptureStop, SlotsMatch, CliTypeOK, filesVars, vars
  <2>6. AnswersFit'
    BY <1>0, <1>9, <2>1, <2>2, <2>3, Launching DEF CaptureStop, AnswersFit, CliTypeOK, filesVars, vars
  <2>7. StopsRan'
    BY <1>0, <1>9, <2>1, <2>2, <2>3, Launching, <1>a DEF CaptureStop, StopsRan, StopSteps, CliTypeOK, filesVars, vars
  <2> QED
    BY <2>4, <2>5, <2>6, <2>7
<1>10. ASSUME NEW r \in Requests, MarkActive(r)
      PROVE  LinkInv'
  <2>0. cli[r] \in Process /\ cli[r].timerId \in Operations /\ cli[r].revision \in Revisions
    BY <1>10 DEF MarkActive, At, CliTypeOK, Process
  <2>1. cli[r] # None /\ Goes(r, "create") /\ "create" \in Steps
    BY <1>10 DEF MarkActive, At, Steps
  <2>2. activeFile' = {cli[r].timerId}
    BY <1>10 DEF MarkActive
  <2>3. activeFile' \in SUBSET Operations /\ Cardinality(activeFile') <= 1
    <3>1. Cardinality(activeFile') = 1
      BY <2>2, FS_Singleton
    <3> QED
      BY <2>0, <2>2, <3>1
  <2>4. CliTypeOK'
    BY <1>10, <2>0, <2>1, <2>3, Going DEF MarkActive, CliTypeOK, Knowledge, filesVars, vars
  <2>5. SlotsMatch'
    BY <1>0, <1>10, <2>1, Going DEF MarkActive, At, SlotsMatch, CliTypeOK, filesVars, vars
  <2>6. AnswersFit'
    BY <1>0, <1>10, <2>1, Going DEF MarkActive, At, AnswersFit, CliTypeOK, filesVars, vars
  <2>7. StopsRan'
    BY <1>0, <1>10, <2>1, Going, <1>a DEF MarkActive, At, StopsRan, StopSteps, CliTypeOK, filesVars, vars
  <2> QED
    BY <2>4, <2>5, <2>6, <2>7
<1>11. ASSUME NEW r \in Requests, JournalStop(r)
      PROVE  LinkInv'
  <2>0. cli[r] \in Process /\ cli[r].timerId \in Operations /\ cli[r].revision \in Revisions
    BY <1>11 DEF JournalStop, At, CliTypeOK, Process
  <2>1. cli[r] # None /\ Goes(r, "stop") /\ "stop" \in Steps
    BY <1>11 DEF JournalStop, At, Steps
  <2> DEFINE new == StopRequest(r, "stopping")
  <2>2. new \in Draft
    BY <1>11, <2>0, DraftsTyped DEF StopRequest
  <2>3. drafts' \in [Drafts -> Draft \union {None}]
    <3>1. drafts' = [drafts EXCEPT ![cli[r].draft] = new]
      BY <1>11 DEF JournalStop, Write
    <3> QED
      BY <2>2, <3>1 DEF CliTypeOK
  <2>4. CliTypeOK'
    BY <1>11, <2>1, <2>3, Going DEF JournalStop, CliTypeOK, vars
  <2>5. SlotsMatch'
    BY <1>0, <1>11, <2>1, Going DEF JournalStop, Write, StopRequest, At, SlotsMatch, CliTypeOK, filesVars, vars
  <2>6. AnswersFit'
    BY <1>0, <1>11, <2>1, Going DEF JournalStop, Write, StopRequest, At, AnswersFit, CliTypeOK, filesVars, vars
  <2>7. StopsRan'
    BY <1>0, <1>11, <2>1, Going, <1>a DEF JournalStop, Write, StopRequest, At, StopsRan, StopSteps, CliTypeOK, filesVars, vars
  <2> QED
    BY <2>4, <2>5, <2>6, <2>7
<1>12. ASSUME NEW r \in Requests, PostStop(r)
      PROVE  LinkInv'
  <2>0. cli[r] \in Process /\ cli[r].timerId \in Operations /\ cli[r].revision \in Revisions
    BY <1>12 DEF PostStop, At, CliTypeOK, Process
  <2>1. cli[r] # None /\ Goes(r, "stopping") /\ "stopping" \in Steps
    BY <1>12 DEF PostStop, At, Steps
  <2>4. CliTypeOK'
    BY <1>0, <1>12, <2>1, Going, <2>0
    DEF PostStop, SendStop, Send, At, CliTypeOK, Process, Steps, Knowledge, filesVars, vars, Profile, TimerIds
  <2>5. SlotsMatch'
    BY <1>0, <1>12, <2>1, Going DEF PostStop, SendStop, Send, At, SlotsMatch, CliTypeOK, filesVars, vars
  <2>6. AnswersFit'
    BY <1>0, <1>12, <2>1, Going DEF PostStop, SendStop, Send, At, AnswersFit, CliTypeOK, filesVars, vars
  <2>7. StopsRan'
    BY <1>0, <1>12, <2>1, Going, <1>a DEF PostStop, SendStop, Send, At, StopsRan, StopSteps, CliTypeOK, filesVars, vars
  <2> QED
    BY <2>4, <2>5, <2>6, <2>7
<1>13. ASSUME NEW r \in Requests, NEW d \in Drafts, RecoverStop(r, d)
      PROVE  LinkInv'
  <2> DEFINE new == [at |-> "recovering", timerId |-> drafts[d].timerId,
                    revision |-> drafts[d].revision, startTime |-> None,
                    fresh |-> FALSE, draft |-> d]
  <2>1. new \in Process
    BY <1>0, <1>13, JournaledTyped DEF RecoverStop, Process, Steps, Times, Revisions
  <2>2. Launch(r, new)
    BY <1>13 DEF RecoverStop
  <2>3. /\ new.at = "recovering" /\ new.timerId = drafts[d].timerId
        /\ new.revision = drafts[d].revision /\ new.draft = d /\ new.startTime = None
    OBVIOUS
  <2> HIDE DEF new
  <2>4. CliTypeOK'
    BY <1>0, <1>13, <2>1, <2>2, <2>3, Launching
    DEF RecoverStop, SendStop, Send, CliTypeOK, Process, Steps, Knowledge, filesVars, vars, Profile, TimerIds
  <2>5. SlotsMatch'
    BY <1>0, <1>13, <2>1, <2>2, <2>3, Launching DEF RecoverStop, SendStop, Send, SlotsMatch, CliTypeOK, filesVars, vars
  <2>6. AnswersFit'
    BY <1>0, <1>13, <2>1, <2>2, <2>3, Launching DEF RecoverStop, SendStop, Send, AnswersFit, CliTypeOK, filesVars, vars
  <2>7. StopsRan'
    BY <1>0, <1>13, <2>1, <2>2, <2>3, Launching, <1>a DEF RecoverStop, SendStop, Send, StopsRan, StopSteps, CliTypeOK, filesVars, vars
  <2> QED
    BY <2>4, <2>5, <2>6, <2>7
<1>14. ASSUME NEW r \in Requests, LoseStopAnswer(r)
      PROVE  LinkInv'
  <2>0. cli[r] \in Process /\ cli[r].timerId \in Operations /\ cli[r].revision \in Revisions
    BY <1>14 DEF LoseStopAnswer, At, CliTypeOK, Process
  <2>1. cli[r] # None /\ cli' = Ended(r)
    BY <1>14 DEF LoseStopAnswer, At
  <2> DEFINE new == StopRequest(r, "outcome_unknown")
  <2>2. new \in Draft
    BY <1>14, <2>0, DraftsTyped DEF StopRequest
  <2>3. drafts' \in [Drafts -> Draft \union {None}]
    <3>1. drafts' = [drafts EXCEPT ![cli[r].draft] = new]
      BY <1>14 DEF LoseStopAnswer, Write
    <3> QED
      BY <2>2, <3>1 DEF CliTypeOK
  <2>4. CliTypeOK'
    BY <1>14, <2>1, <2>3, Ending DEF LoseStopAnswer, CliTypeOK, vars
  <2>5. SlotsMatch'
    BY <1>0, <1>14, <2>1, Ending DEF LoseStopAnswer, Write, StopRequest, At, SlotsMatch, CliTypeOK, filesVars, vars
  <2>6. AnswersFit'
    BY <1>0, <1>14, <2>1, Ending DEF LoseStopAnswer, Write, StopRequest, At, AnswersFit, CliTypeOK, filesVars, vars
  <2>7. StopsRan'
    BY <1>0, <1>14, <2>1, Ending, <1>a DEF LoseStopAnswer, Write, StopRequest, At, StopsRan, StopSteps, CliTypeOK, filesVars, vars
  <2> QED
    BY <2>4, <2>5, <2>6, <2>7
<1>15. ASSUME NEW r \in Requests, FinalizeStop(r)
      PROVE  LinkInv'
  <2>0. cli[r] \in Process /\ cli[r].timerId \in Operations /\ cli[r].revision \in Revisions
    BY <1>15 DEF FinalizeStop, At, CliTypeOK, Process
  <2>1. cli[r] # None /\ Goes(r, "untrack") /\ "untrack" \in Steps
    BY <1>15 DEF FinalizeStop, At, Steps
  <2> DEFINE new == IF Fresh(r) THEN [status |-> "pending", interval |-> Interval(r)]
                       ELSE StopRequest(r, "discarded")
  <2>2. new \in Draft
    BY <1>15, <2>0, DraftsTyped, AnsweredReceipt DEF StopRequest, Interval, FinalizeStop
  <2>3. drafts' \in [Drafts -> Draft \union {None}]
    <3>1. drafts' = [drafts EXCEPT ![cli[r].draft] = new]
      BY <1>15 DEF FinalizeStop, Write
    <3> QED
      BY <2>2, <3>1 DEF CliTypeOK
  <2>4. CliTypeOK'
    BY <1>15, <2>1, <2>3, Going DEF FinalizeStop, CliTypeOK, vars
  <2>5. SlotsMatch'
    BY <1>0, <1>15, <2>1, Going DEF FinalizeStop, Write, StopRequest, Interval, Answered, At, SlotsMatch, CliTypeOK, filesVars, vars
  <2>6. AnswersFit'
    BY <1>0, <1>15, <2>1, Going DEF FinalizeStop, Write, StopRequest, Interval, At, AnswersFit, CliTypeOK, filesVars, vars
  <2>7. StopsRan'
    BY <1>0, <1>15, <2>1, Going, <1>a DEF FinalizeStop, Write, StopRequest, Interval, At, StopsRan, StopSteps, CliTypeOK, filesVars, vars
  <2> QED
    BY <2>4, <2>5, <2>6, <2>7
<1>16. ASSUME NEW r \in Requests, Untrack(r)
      PROVE  LinkInv'
  <2>0. cli[r] \in Process /\ cli[r].timerId \in Operations /\ cli[r].revision \in Revisions
    BY <1>16 DEF Untrack, At, CliTypeOK, Process
  <2>1. cli[r] # None /\ cli' = Ended(r)
    BY <1>16 DEF Untrack, At
  <2>4. CliTypeOK'
    BY <1>0, <1>16, <2>1, Ending, FS_EmptySet, <2>0
    DEF Untrack, At, CliTypeOK, Process, Steps, Knowledge, filesVars, vars, Profile, TimerIds
  <2>5. SlotsMatch'
    BY <1>0, <1>16, <2>1, Ending DEF Untrack, At, SlotsMatch, CliTypeOK, filesVars, vars
  <2>6. AnswersFit'
    BY <1>0, <1>16, <2>1, Ending DEF Untrack, At, AnswersFit, CliTypeOK, filesVars, vars
  <2>7. StopsRan'
    BY <1>0, <1>16, <2>1, Ending, <1>a DEF Untrack, At, StopsRan, StopSteps, CliTypeOK, filesVars, vars
  <2> QED
    BY <2>4, <2>5, <2>6, <2>7
<1>17. ASSUME NEW r \in Requests, Quit(r)
      PROVE  LinkInv'
  <2>0. cli[r] \in Process /\ cli[r].timerId \in Operations /\ cli[r].revision \in Revisions
    BY <1>17 DEF Quit, At, CliTypeOK, Process
  <2>1. cli[r] # None /\ cli' = Ended(r)
    BY <1>17 DEF Quit, At
  <2>4. CliTypeOK'
    BY <1>0, <1>17, <2>1, Ending, <2>0
    DEF Quit, CliTypeOK, Process, Steps, Knowledge, filesVars, vars, Profile, TimerIds
  <2>5. SlotsMatch'
    BY <1>0, <1>17, <2>1, Ending DEF Quit, SlotsMatch, CliTypeOK, filesVars, vars
  <2>6. AnswersFit'
    BY <1>0, <1>17, <2>1, Ending DEF Quit, AnswersFit, CliTypeOK, filesVars, vars
  <2>7. StopsRan'
    BY <1>0, <1>17, <2>1, Ending, <1>a DEF Quit, StopsRan, StopSteps, CliTypeOK, filesVars, vars
  <2> QED
    BY <2>4, <2>5, <2>6, <2>7
<1>18. ASSUME NEW r \in Requests, NEW d \in Drafts, CreateDraft(r, d)
      PROVE  LinkInv'
  <2>1. cli[r] \in Process /\ cli' = [cli EXCEPT ![r] = [cli[r] EXCEPT !.at = "journal", !.draft = d]]
    BY <1>18 DEF CreateDraft, At, CliTypeOK
  <2>2. /\ cli' \in [Requests -> Process \union {None}] /\ cli'[r].at = "journal"
        /\ cli'[r].timerId = cli[r].timerId /\ cli'[r].revision = cli[r].revision
        /\ cli'[r].draft = d
        /\ \A q \in Requests \ {r} : cli'[q] = cli[q]
    BY <2>1 DEF CliTypeOK, Process, Steps
  <2>3. cli[r].timerId \in Operations
    BY <2>1 DEF Process
  <2>4. CliTypeOK'
    BY <1>18, <2>2, <2>3, DraftsTyped DEF CreateDraft, CliTypeOK, vars
  <2>5. SlotsMatch' /\ AnswersFit'
    BY <1>18, <2>2 DEF CreateDraft, At, SlotsMatch, AnswersFit, vars
  <2>6. StopsRan'
    BY <1>18, <2>2, <1>a DEF CreateDraft, At, StopsRan, StopSteps, CliTypeOK, vars
  <2> QED
    BY <2>4, <2>5, <2>6
<1>19. ASSUME NEW r \in Requests, Serve(r)
      PROVE  LinkInv'
  <2>1. Progress(r) /\ UNCHANGED <<pendingStart, activeFile, drafts, started>>
    BY <1>19, ServeIsProgress DEF Serve, Respond, Break, filesVars
  <2>2. cli \in [Requests -> Process \union {None}]
    BY DEF CliTypeOK
  <2>3. \/ cli' = [cli EXCEPT ![r] = Released(r)] /\ (At(r, "posted") => Respond(r))
        \/ At(r, "posted") /\ Goes(r, "unheard") /\ Break(r)
    BY <1>19, <2>2 DEF Serve, Respond, Break, Goes
  <2>4. CASE cli' = [cli EXCEPT ![r] = Released(r)]
    <3>1. /\ \A q \in Requests \ {r} : cli'[q] = cli[q]
          /\ cli'[r] = IF At(r, "gone") /\ pc'[r] = "idle" THEN None ELSE cli[r]
      BY <2>2, <2>4 DEF Released
    <3>2. CliTypeOK'
      BY <2>1, <2>2, <2>4, <3>1, SlotStep DEF CliTypeOK, At
    <3>3. SlotsMatch'
      BY <2>1, <3>1, SlotStep DEF SlotsMatch, At
    <3>4. AnswersFit'
      BY <2>1, <3>1, SlotStep, AnswerFits DEF SlotsMatch, AnswersFit, At
    <3>5. StopsRan'
      BY <1>a, <2>1, <3>1 DEF StopsRan
    <3> QED
      BY <3>2, <3>3, <3>4, <3>5
  <2>5. CASE At(r, "posted") /\ Goes(r, "unheard") /\ Break(r)
    <3>1. cli[r] # None /\ "unheard" \in Steps
      BY <2>5 DEF At, Steps
    <3>2. CliTypeOK'
      BY <2>1, <2>5, <3>1, Going, SlotStep DEF CliTypeOK
    <3>3. SlotsMatch'
      BY <2>1, <2>5, <3>1, Going, SlotStep DEF SlotsMatch, At
    <3>4. AnswersFit'
      BY <2>1, <2>5, <3>1, Going, SlotStep DEF AnswersFit
    <3>5. StopsRan'
      BY <1>a, <2>1, <2>5, <3>1, Going DEF StopsRan, StopSteps
    <3> QED
      BY <3>2, <3>3, <3>4, <3>5
  <2> QED
    BY <2>3, <2>4, <2>5
<1>20. ASSUME NEW r \in Requests, Device(r)
      PROVE  LinkInv'
  <2>1. /\ UNCHANGED <<pendingStart, activeFile, drafts, cli, started>> /\ cli[r] = None
        /\ \A q \in Requests \ {r} : pc'[q] = pc[q] /\ req'[q] = req[q] /\ reply'[q] = reply[q]
    BY <1>0, <1>20
    DEF Device, Arrive, SendStart, RepeatStart, SendStop, SendLegacyStop, Send, clientVars, filesVars
  <2> QED
    BY <2>1, <1>a DEF CliTypeOK, SlotsMatch, AnswersFit, StopsRan
<1>21. ASSUME UNCHANGED <<pc, req, reply, clientVars>>
      PROVE  LinkInv'
  BY <1>21, <1>a DEF clientVars, filesVars, CliTypeOK, SlotsMatch, AnswersFit, StopsRan
<1> QED
  BY <1>1, <1>2, <1>3, <1>4, <1>5, <1>6, <1>7, <1>8, <1>9, <1>10, <1>11, <1>12, <1>13, <1>14, <1>15, <1>16, <1>17, <1>18, <1>19, <1>20, <1>21 DEF CliNext, Client, Tick, cliVars, vars

------------------------------------------------------------------------------
(* A stop is on disk before it takes effect. *)

LEMMA OverStays ==
    ASSUME IInv, [Next]_vars, NEW revision, Number(revision) \in Nat, Over(revision)
    PROVE  Over(revision)'
  BY TimersMove DEF Over, Number

\* A timer is stopped by the write that moves the profile on.
LEMMA StepOver ==
    ASSUME IInv, StoppedIsOver, [Next]_vars
    PROVE  StoppedIsOver'
<1> USE TimerAssumption
<1>1. /\ \A s \in sessions \union sessions' : Number(s.revision) \in Nat
      /\ Number(profile.timerRevision) \in Nat
  BY StepIInv DEF IInv, TypeOK, Session, Profile, Revisions, Number
<1>2. CASE UNCHANGED <<profile, sessions>>
  BY <1>2 DEF StoppedIsOver, Over, Number
<1>3. ASSUME NEW r \in Requests, StartLands(r)
      PROVE  StoppedIsOver'
  <2>1. /\ sessions' = sessions \union {Started(r)}
        /\ Number(profile'.timerRevision) = Number(profile.timerRevision) + 1
    BY <1>3, WriteStartSafe DEF StartLands
  <2>2. Started(r).stoppedAt = None
    BY DEF Started
  <2> QED
    BY <1>1, <2>1, <2>2 DEF StoppedIsOver, Over, Number
<1>4. ASSUME NEW r \in Requests, StopLands(r)
      PROVE  StoppedIsOver'
  <2>1. /\ sessions' = (sessions \ {Running}) \union {Stopped(r)}
        /\ Stopped(r) = [Running EXCEPT !.stoppedAt = req[r].instant]
        /\ Number(profile'.timerRevision) = Number(profile.timerRevision) + 1
    BY <1>4, WriteStopSafe DEF StopLands
  <2>2. Stopped(r).revision = profile.timerRevision
    BY <2>1 DEF Running
  <2>3. \A s \in sessions : s.stoppedAt # None => Number(profile'.timerRevision) > Number(s.revision)
    BY <1>1, <2>1 DEF StoppedIsOver, Over
  <2>4. Number(profile'.timerRevision) > Number(Stopped(r).revision)
    BY <1>1, <2>1, <2>2
  <2> QED
    BY <2>1, <2>3, <2>4 DEF StoppedIsOver, Over
<1> QED
  BY <1>2, <1>3, <1>4, OnlyLandingsMove

\* The stop a client was told of is over.
LEMMA AnsweredIsOver ==
    ASSUME IInv, AnswersFit, StoppedIsOver, NEW r \in Requests,
           At(r, "stopping") \/ At(r, "recovering"), Answered(r)
    PROVE  Over(cli[r].revision)
<1>1. reply[r].session \in Receipt /\ reply[r].session \in sessions
  BY AnsweredReceipt
<1>2. reply[r].session.revision = cli[r].revision
  BY DEF AnswersFit, At, Answered
<1> QED
  BY <1>1, <1>2, TimerAssumption DEF StoppedIsOver, Receipt

LEMMA StepHeld ==
    ASSUME IInv, LinkInv, JournalInv, [CliNext]_cliVars
    PROVE  DraftsHeld'
<1> USE TimerAssumption, CliAssumption DEF LinkInv, JournalInv
<1>0. [Next]_vars /\ CliTypeOK' /\ cli \in [Requests -> Process \union {None}]
  BY StepTimer, StepLink DEF CliTypeOK
<1>a. /\ \A v \in Revisions : Over(v) => Over(v)'
      /\ \A r \in Requests : cli[r] # None => cli[r].revision \in Revisions
  <2>1. \A v \in Revisions : Number(v) \in Nat
    BY DEF Revisions, Number
  <2> QED
    BY <1>0, <2>1, OverStays DEF Process
\* A process whose draft is untouched, and which goes on with what it is about.
<1>b. ASSUME NEW r \in Requests, UNCHANGED drafts,
             \A q \in Requests \ {r} : cli'[q] = cli[q],
             \/ cli'[r] = None
             \/ /\ cli'[r] # None /\ cli'[r].draft = None
             \/ /\ cli[r] # None /\ cli[r].draft = cli'[r].draft /\ cli[r].at # "gone"
                /\ cli[r].timerId = cli'[r].timerId /\ cli[r].revision = cli'[r].revision
                /\ cli'[r].at \in {"stopping", "untrack", "gone"}
                /\ cli'[r].at = "stopping" => cli[r].at \in {"stop", "stopping"}
                /\ cli'[r].at = "gone" => cli[r].at \in {"stop", "stopping", "recovering"}
             \/ cli'[r] = cli[r]
      PROVE  DraftsHeld'
  BY <1>a, <1>b DEF DraftsHeld, Journals, Over
<1>1. ASSUME NEW r \in Requests, NEW o \in Operations, Reserve(r, o)
      PROVE  DraftsHeld'
  <2>1. /\ UNCHANGED drafts /\ \A q \in Requests \ {r} : cli'[q] = cli[q]
        /\ cli'[r].draft = None
    BY <1>0, <1>1 DEF Reserve, Launch, Starter, filesVars
  <2> QED
    BY <1>b, <2>1
<1>2. ASSUME NEW r \in Requests, Resume(r)
      PROVE  DraftsHeld'
  <2>1. /\ UNCHANGED drafts /\ \A q \in Requests \ {r} : cli'[q] = cli[q]
        /\ cli'[r].draft = None
    BY <1>0, <1>2 DEF Resume, Launch, Starter, filesVars
  <2> QED
    BY <1>b, <2>1
<1>3. ASSUME NEW r \in Requests, Find(r)
      PROVE  DraftsHeld'
  <2>1. /\ UNCHANGED drafts /\ \A q \in Requests \ {r} : cli'[q] = cli[q]
        /\ cli'[r].draft = None
    BY <1>0, <1>3 DEF Find, Launch, Starter, filesVars
  <2> QED
    BY <1>b, <2>1
<1>4. ASSUME NEW r \in Requests, PostStart(r)
      PROVE  DraftsHeld'
  <2>1. UNCHANGED drafts /\ At(r, "post") /\ Goes(r, "posted") /\ "posted" \in Steps
    BY <1>4 DEF PostStart, At, Steps, filesVars
  <2> QED
    BY <1>4, <1>b, <2>1, Going DEF PostStart, At, SlotsMatch
<1>5. ASSUME NEW r \in Requests, FindStarted(r)
      PROVE  DraftsHeld'
  <2>1. UNCHANGED drafts /\ At(r, cli[r].at) /\ Goes(r, "save") /\ "save" \in Steps
    BY <1>5 DEF FindStarted, At, Steps, filesVars
  <2> QED
    BY <1>5, <1>b, <2>1, Going DEF FindStarted, At, SlotsMatch
<1>6. ASSUME NEW r \in Requests, Refused(r)
      PROVE  DraftsHeld'
  <2>1. UNCHANGED drafts /\ At(r, "posted") /\ Goes(r, "clear") /\ "clear" \in Steps
    BY <1>6 DEF Refused, At, Steps, filesVars
  <2> QED
    BY <1>6, <1>b, <2>1, Going DEF Refused, At, SlotsMatch
<1>7. ASSUME NEW r \in Requests, SaveActive(r)
      PROVE  DraftsHeld'
  <2>1. UNCHANGED drafts /\ At(r, "save") /\ Goes(r, "clear") /\ "clear" \in Steps
    BY <1>7 DEF SaveActive, At, Steps, filesVars
  <2> QED
    BY <1>7, <1>b, <2>1, Going DEF SaveActive, At, SlotsMatch
<1>8. ASSUME NEW r \in Requests, ClearPending(r)
      PROVE  DraftsHeld'
  <2>1. UNCHANGED drafts /\ cli[r] # None /\ cli[r].at # "gone" /\ cli' = Ended(r)
    BY <1>8 DEF ClearPending, At, filesVars
  <2> QED
    BY <1>b, <2>1, Ending DEF SlotsMatch
<1>9. ASSUME NEW r \in Requests, CaptureStop(r)
      PROVE  DraftsHeld'
  <2>1. /\ UNCHANGED drafts /\ \A q \in Requests \ {r} : cli'[q] = cli[q]
        /\ cli'[r].draft = None
    BY <1>0, <1>9 DEF CaptureStop, Launch, filesVars
  <2> QED
    BY <1>b, <2>1
<1>10. ASSUME NEW r \in Requests, MarkActive(r)
      PROVE  DraftsHeld'
  <2>1. UNCHANGED drafts /\ At(r, "track") /\ Goes(r, "create") /\ "create" \in Steps
    BY <1>10 DEF MarkActive, At, Steps, filesVars
  <2> QED
    BY <1>10, <1>b, <2>1, Going DEF MarkActive, At, SlotsMatch
<1>11. ASSUME NEW r \in Requests, PostStop(r)
      PROVE  DraftsHeld'
  <2>1. UNCHANGED drafts /\ At(r, "stop") /\ Goes(r, "stopping") /\ "stopping" \in Steps
    BY <1>11 DEF PostStop, At, Steps, filesVars
  <2> QED
    BY <1>11, <1>b, <2>1, Going DEF PostStop, At, SlotsMatch
<1>12. ASSUME NEW r \in Requests, Untrack(r)
      PROVE  DraftsHeld'
  <2>1. UNCHANGED drafts /\ cli[r] # None /\ cli[r].at # "gone" /\ cli' = Ended(r)
    BY <1>12 DEF Untrack, At, filesVars
  <2> QED
    BY <1>b, <2>1, Ending DEF SlotsMatch
<1>13. ASSUME NEW r \in Requests, Quit(r)
      PROVE  DraftsHeld'
  <2>1. UNCHANGED drafts /\ cli[r] # None /\ cli[r].at # "gone" /\ cli' = Ended(r)
    BY <1>13 DEF Quit, At, filesVars
  <2> QED
    BY <1>b, <2>1, Ending DEF SlotsMatch
<1>14. ASSUME NEW r \in Requests, NEW d \in Drafts, CreateDraft(r, d)
      PROVE  DraftsHeld'
  <2>1. /\ cli[r] \in Process /\ drafts[d] = None
        /\ cli' = [cli EXCEPT ![r] = [cli[r] EXCEPT !.at = "journal", !.draft = d]]
    BY <1>0, <1>14 DEF CreateDraft, At
  <2>2. /\ cli'[r].at = "journal" /\ cli'[r].draft = d
        /\ \A q \in Requests \ {r} : cli'[q] = cli[q]
    BY <1>0, <2>1 DEF Process
  <2>3. drafts' = [drafts EXCEPT ![d] = [status |-> "pending_stop", timerId |-> cli[r].timerId]]
    BY <1>14 DEF CreateDraft
  <2>4. drafts'[d] # None /\ drafts'[d].status = "pending_stop"
        /\ \A e \in Drafts \ {d} : drafts'[e] = drafts[e]
    BY <2>1, <2>3, DraftsTyped DEF CliTypeOK, Process
  <2>5. \A q \in Requests : cli[q] # None => cli[q].draft \in Drafts \union {None}
    BY <1>0 DEF Process
  <2>6. \A q \in Requests : cli[q] # None => cli[q].draft # d
    BY <2>1, <2>5, CliAssumption DEF DraftsHeld
  <2> QED
    BY <1>a, <2>2, <2>4, <2>5, <2>6 DEF DraftsHeld, Journals, Over
<1>15. ASSUME NEW r \in Requests, JournalStop(r)
      PROVE  DraftsHeld'
  <2> DEFINE d == cli[r].draft
             new == StopRequest(r, "stopping")
  <2>1. cli[r] # None /\ cli[r].at = "journal" /\ Goes(r, "stop") /\ "stop" \in Steps
    BY <1>15 DEF JournalStop, At, Steps
  <2>2. d \in Drafts /\ drafts[d] # None /\ drafts[d].status = "pending_stop"
    BY <2>1 DEF SlotsMatch, DraftsHeld
  <2>3. new \in Draft /\ new # None
    <3>1. cli[r].timerId \in Operations /\ cli[r].revision \in Revisions
      BY <1>0, <2>1 DEF Process
    <3> QED
      BY <3>1, DraftsTyped DEF StopRequest
  <2>4. drafts'[d] = new /\ \A e \in Drafts \ {d} : drafts'[e] = drafts[e]
    BY <1>15, <2>2 DEF JournalStop, Write, CliTypeOK
  <2>5. new.status = "stopping" /\ new.timerId = cli[r].timerId /\ new.revision = cli[r].revision
    BY DEF StopRequest
  <2>6. \A q \in Requests : cli[q] # None => cli[q].draft \in Drafts \union {None}
    BY <1>0 DEF Process
  <2>7. \A q \in Requests \ {r} : cli[q] # None /\ cli[q].draft = d =>
            cli[q].at = "gone" /\ Over(cli[q].revision)
    BY <2>1, <2>2 DEF DraftsHeld, Journals, Over
  <2> HIDE DEF d, new
  <2>8. /\ cli'[r] # None /\ cli'[r].at = "stop" /\ cli'[r].draft = d
        /\ cli'[r].timerId = cli[r].timerId /\ cli'[r].revision = cli[r].revision
        /\ \A q \in Requests \ {r} : cli'[q] = cli[q]
    BY <2>1, Going DEF d
  <2>9. cli[r].draft = d
    BY DEF d
  <2> QED
    BY <1>a, <2>1, <2>2, <2>3, <2>4, <2>5, <2>6, <2>7, <2>8, <2>9 DEF DraftsHeld, Journals, Over
<1>16. ASSUME NEW r \in Requests, NEW d \in Drafts, RecoverStop(r, d)
      PROVE  DraftsHeld'
  <2> DEFINE new == [at |-> "recovering", timerId |-> drafts[d].timerId,
                     revision |-> drafts[d].revision, startTime |-> None,
                     fresh |-> FALSE, draft |-> d]
  <2>1. /\ drafts[d] # None /\ drafts[d].status \in {"stopping", "outcome_unknown"}
        /\ \A q \in Requests : cli[q] # None /\ cli[q].draft = d => cli[q].at = "gone"
        /\ UNCHANGED drafts
        /\ cli[r] = None /\ cli' = [cli EXCEPT ![r] = new]
    BY <1>16 DEF RecoverStop, Launch, Free, filesVars
  <2>2. cli'[r] = new /\ \A q \in Requests \ {r} : cli'[q] = cli[q]
    BY <1>0, <2>1
  <2>3. /\ new.at = "recovering" /\ new.timerId = drafts[d].timerId
        /\ new.revision = drafts[d].revision /\ new.draft = d
    OBVIOUS
  <2> HIDE DEF new
  <2> QED
    BY <1>a, <2>1, <2>2, <2>3 DEF DraftsHeld, Journals, Over
\* A rewritten draft still holds the stop of whoever is gone, or that stop is over.
<1>c. ASSUME NEW r \in Requests, cli[r] # None, cli[r].at \in {"stopping", "recovering"},
             NEW new \in Draft, Write(r, new),
             \/ new = StopRequest(r, "outcome_unknown")
             \/ Over(cli[r].revision),
             \A q \in Requests \ {r} : cli'[q] = cli[q],
             \/ cli'[r] = None
             \/ /\ cli'[r] # None /\ cli'[r].draft = cli[r].draft
                /\ cli'[r].timerId = cli[r].timerId /\ cli'[r].revision = cli[r].revision
                /\ cli'[r].at \in {"gone", "untrack"}
      PROVE  DraftsHeld'
  <2> DEFINE d == cli[r].draft
  <2>1. d \in Drafts /\ Journals(d, r) /\ new # None
    BY <1>c DEF SlotsMatch, DraftsHeld
  <2>2. drafts'[d] = new /\ \A e \in Drafts \ {d} : drafts'[e] = drafts[e]
    BY <1>c, <2>1 DEF Write, CliTypeOK
  <2>3. \A q \in Requests : cli[q] # None => cli[q].draft \in Drafts \union {None}
    BY <1>0 DEF Process
  <2>4. \A q \in Requests \ {r} : cli[q] # None /\ cli[q].draft = d =>
            /\ cli[q].at = "gone"
            /\ Over(cli[q].revision) \/ Journals(d, q)
    BY <1>c, <2>1 DEF DraftsHeld
  <2> DEFINE Kept(q) == \/ Over(cli[q].revision)
                        \/ /\ new.status = "outcome_unknown" /\ new.timerId = cli[q].timerId
                           /\ new.revision = cli[q].revision
  <2>5. Kept(r) /\ \A q \in Requests \ {r} : cli[q] # None /\ cli[q].draft = d => Kept(q)
    BY <1>c, <2>1, <2>4 DEF Journals, StopRequest
  <2>6. cli[r].draft = d
    OBVIOUS
  <2> HIDE DEF d
  <2>7. ASSUME NEW q \in Requests, q # r, cli'[q] # None, cli'[q].draft # None
        PROVE  /\ drafts'[cli'[q].draft] # None
               /\ cli'[q].at = "journal" => drafts'[cli'[q].draft].status = "pending_stop"
               /\ cli'[q].at \in {"stop", "stopping", "recovering"}
                      => Journals(cli[q].draft, q)'
               /\ cli'[q].at = "gone" => Journals(cli[q].draft, q)' \/ Over(cli[q].revision)'
    <3>1. cli'[q] = cli[q] /\ cli[q].draft \in Drafts
      BY <1>c, <2>3, <2>7
    <3>2. CASE cli[q].draft = d
      BY <1>a, <2>1, <2>2, <2>4, <2>5, <3>1, <3>2, <2>7 DEF Journals, Over
    <3>3. CASE cli[q].draft # d
      BY <1>a, <2>1, <2>2, <3>1, <3>3, <2>7 DEF DraftsHeld, Journals, Over
    <3> QED
      BY <3>2, <3>3
  <2>8. ASSUME cli'[r] # None
        PROVE  /\ drafts'[cli'[r].draft] # None
               /\ cli'[r].at = "gone" => Journals(cli[r].draft, r)' \/ Over(cli[r].revision)'
    BY <1>a, <1>c, <2>1, <2>2, <2>5, <2>6, <2>8 DEF Journals, Over
  <2>9. ASSUME NEW p \in Requests, NEW q \in Requests \ {p}, cli'[p] # None, cli'[p].draft # None,
               cli'[p].at # "gone", cli'[q] # None, cli'[q].at # "gone"
        PROVE  cli'[q].draft # cli'[p].draft
    BY <1>c, <2>1, <2>9 DEF DraftsHeld
  <2> QED
    BY <1>c, <2>7, <2>8, <2>9 DEF DraftsHeld
<1>17. ASSUME NEW r \in Requests, LoseStopAnswer(r)
      PROVE  DraftsHeld'
  <2> DEFINE new == StopRequest(r, "outcome_unknown")
  <2>1. /\ cli[r] # None /\ cli[r].at = "stopping" /\ cli' = Ended(r) /\ Write(r, new)
    BY <1>17 DEF LoseStopAnswer, At
  <2>2. new \in Draft
    BY <1>0, <2>1, DraftsTyped DEF StopRequest, Process
  <2> HIDE DEF new
  <2>3. new = StopRequest(r, "outcome_unknown")
    BY DEF new
  <2> QED
    BY <1>c, <2>1, <2>2, <2>3, Ending
<1>18. ASSUME NEW r \in Requests, FinalizeStop(r)
      PROVE  DraftsHeld'
  <2> DEFINE new == IF Fresh(r) THEN [status |-> "pending", interval |-> Interval(r)]
                                ELSE StopRequest(r, "discarded")
  <2>1. /\ cli[r] # None /\ cli[r].at \in {"stopping", "recovering"} /\ Answered(r)
        /\ Write(r, new) /\ Goes(r, "untrack") /\ "untrack" \in Steps
    BY <1>18 DEF FinalizeStop, At, Steps
  <2>2. new \in Draft
    BY <1>0, <2>1, DraftsTyped, AnsweredReceipt DEF StopRequest, Process, Interval, At
  <2>3. Over(cli[r].revision)
    BY <2>1, AnsweredIsOver DEF At
  <2> HIDE DEF new
  <2> QED
    BY <1>c, <2>1, <2>2, <2>3, Going
<1>19. ASSUME NEW r \in Requests, Serve(r)
      PROVE  DraftsHeld'
  <2>1. UNCHANGED drafts /\ \A q \in Requests \ {r} : cli'[q] = cli[q]
    BY <1>0, <1>19 DEF Serve, Respond, Break, filesVars
  <2>2. \/ cli'[r] = None \/ cli'[r] = cli[r]
        \/ At(r, "posted") /\ Goes(r, "unheard") /\ "unheard" \in Steps
    BY <1>0, <1>19 DEF Serve, Respond, Break, Released, Goes, Steps
  <2>3. CASE At(r, "posted") /\ Goes(r, "unheard") /\ "unheard" \in Steps
    BY <1>b, <2>1, <2>3, Going DEF At, SlotsMatch
  <2> QED
    BY <1>b, <2>1, <2>2, <2>3
<1>20. ASSUME UNCHANGED <<cli, drafts>>
       PROVE  DraftsHeld'
  BY <1>20, <1>a DEF DraftsHeld, Journals, Over
<1> QED
  BY <1>1, <1>2, <1>3, <1>4, <1>5, <1>6, <1>7, <1>8, <1>9, <1>10, <1>11, <1>12, <1>13, <1>14,
     <1>15, <1>16, <1>17, <1>18, <1>19, <1>20
  DEF CliNext, Client, Device, clientVars, filesVars, cliVars

LEMMA StepJournal ==
    ASSUME IInv, LinkInv, JournalInv, [CliNext]_cliVars
    PROVE  JournalInv'
  BY StepTimer, StepOver, StepHeld DEF JournalInv

LEMMA InitJournal == CliInit => JournalInv
  BY TimerAssumption
  DEF CliInit, Init, JournalInv, StoppedIsOver, DraftsHeld

\* Together they keep the server's invariant and their own.
LEMMA CliInvariance == CliSpec => [](IInv /\ LinkInv /\ JournalInv)
<1>1. CliInit => IInv /\ LinkInv /\ JournalInv
  BY InitIInv, InitLink, InitJournal DEF CliInit
<1>2. IInv /\ LinkInv /\ JournalInv /\ [CliNext]_cliVars => (IInv /\ LinkInv /\ JournalInv)'
  BY StepTimer, StepIInv, StepLink, StepJournal
<1> QED
  BY <1>1, <1>2, PTL DEF CliSpec

\* The client, killed at any step and run by several processes at once, asks nothing
\* of the server that the server's specification does not answer for: whatever is
\* proved of the timer holds beside the client too.
THEOREM ServerUnchanged == CliSpec => Spec
<1>1. CliInit => Init
  BY DEF CliInit
<1>2. IInv /\ LinkInv /\ [CliNext]_cliVars => [Next]_vars
  BY StepTimer
<1> QED
  BY <1>1, <1>2, CliInvariance, PTL DEF CliSpec, Spec

\* Files and processes keep the shape the client gives them.
THEOREM CliTypeCorrect == CliSpec => []CliTypeOK
<1>1. LinkInv => CliTypeOK
  BY DEF LinkInv
<1> QED
  BY <1>1, CliInvariance, PTL

\* What stops a client's timer is the request in its slot.
LEMMA OwnStopLands ==
    ASSUME IInv, LinkInv, [CliNext]_cliVars, NEW r \in Requests, StopsForClient(r)
    PROVE  StopLands(r) /\ UNCHANGED drafts
<1>1. /\ [Next]_vars /\ sessions' # sessions /\ pc'[r] # pc[r]
      /\ req[r].kind = "stop"
  BY StepTimer DEF StopsForClient
<1>2. PICK q \in Requests : Progress(q) /\ (StartLands(q) \/ StopLands(q))
  BY <1>1, OnlyLandingsMove
<1>3. q = r
  BY <1>1, <1>2, SlotStep
<1>4. StopLands(r)
  BY <1>1, <1>2, <1>3 DEF StartLands
<1>5. ASSUME NEW p \in Requests, Client(p) \/ Device(p)
      PROVE  UNCHANGED sessions
  BY <1>5
  DEF Client, Device, Arrive, SendStart, RepeatStart, SendStop, SendLegacyStop, Send, Reserve,
      Resume, Find, PostStart, FindStarted, Refused, SaveActive, ClearPending, CaptureStop,
      MarkActive, CreateDraft, RecoverStop, JournalStop, PostStop, LoseStopAnswer, FinalizeStop,
      Untrack, Quit, vars
<1>6. \E p \in Requests : Serve(p)
  BY <1>1, <1>5 DEF CliNext, cliVars, vars, Tick
<1> QED
  BY <1>4, <1>6 DEF Serve, Respond, Break, filesVars

\* Whenever the server stops a timer for the client, however late and whoever was
\* killed meanwhile, a draft on disk names that timer and its revision: a draft is
\* finished only when the profile has moved on from the revision it names, and from
\* then on the server refuses the stop.
THEOREM StopsJournaled == CliSpec => StopsAreJournaled
<1>1. ASSUME IInv, LinkInv, JournalInv, [CliNext]_cliVars, NEW r \in Requests, StopsForClient(r)
      PROVE  \E d \in Drafts :
                 /\ drafts'[d] # None /\ drafts'[d].status \in {"stopping", "outcome_unknown"}
                 /\ drafts'[d].timerId = req[r].timerId
                 /\ drafts'[d].revision = req[r].revision
  <2>1. StopLands(r) /\ drafts' = drafts
    BY <1>1, OwnStopLands
  <2>2. pc[r] # "idle" /\ cli[r] # None /\ req[r].kind = "stop"
    BY <1>1, <2>1 DEF StopsForClient, StopLands
  <2>3. /\ req[r].timerId = cli[r].timerId /\ req[r].revision = cli[r].revision
        /\ cli[r].at \in {"stopping", "recovering", "gone"} /\ cli[r].draft \in Drafts
    BY <1>1, <2>2 DEF LinkInv, SlotsMatch
  <2>4. profile.timerRevision = req[r].revision
    BY <1>1, <2>1 DEF StopLands, Snapshot, IInv, SeenBefore, Kinds
  <2>5. ~Over(cli[r].revision)
    BY <1>1, <2>3, <2>4, TimerAssumption DEF Over, Number, IInv, TypeOK, Profile, Revisions
  <2>6. Journals(cli[r].draft, r)
    BY <1>1, <2>2, <2>3, <2>5, CliAssumption DEF JournalInv, DraftsHeld
  <2> QED
    BY <2>1, <2>3, <2>6 DEF Journals
<1>2. IInv /\ LinkInv /\ JournalInv /\ [CliNext]_cliVars =>
          \A r \in Requests : StopsForClient(r) =>
              \E d \in Drafts :
                  /\ drafts'[d] # None /\ drafts'[d].status \in {"stopping", "outcome_unknown"}
                  /\ drafts'[d].timerId = req[r].timerId
                  /\ drafts'[d].revision = req[r].revision
  BY <1>1
<1> QED
  BY <1>2, CliInvariance, PTL DEF CliSpec, StopsAreJournaled

------------------------------------------------------------------------------
(* Each step is about one slot. *)

LEMMA OthersAlone ==
    ASSUME IInv, LinkInv, NEW r \in Requests, Client(r) \/ Serve(r) \/ Device(r)
    PROVE  \A q \in Requests \ {r} :
               /\ cli'[q] = cli[q] /\ pc'[q] = pc[q] /\ reply'[q] = reply[q]
               /\ req'[q] = req[q]
<1>0. /\ cli \in [Requests -> Process \union {None}] /\ pc \in [Requests -> Pcs]
      /\ reply \in [Requests -> Reply] /\ req \in [Requests -> Request \union {None}]
  BY DEF LinkInv, CliTypeOK, IInv, TypeOK
<1>1. ASSUME Serve(r)
      PROVE  \A q \in Requests \ {r} :
                 cli'[q] = cli[q] /\ pc'[q] = pc[q] /\ reply'[q] = reply[q] /\ req'[q] = req[q]
  BY <1>0, <1>1, ServeIsProgress, SlotStep DEF Serve, Respond, Break
<1>2. ASSUME Device(r)
      PROVE  \A q \in Requests \ {r} :
                 cli'[q] = cli[q] /\ pc'[q] = pc[q] /\ reply'[q] = reply[q] /\ req'[q] = req[q]
  BY SMTT(40), <1>0, <1>2
  DEF Device, Arrive, SendStart, RepeatStart, SendStop, SendLegacyStop, Send, clientVars
<1>3. ASSUME Client(r)
      PROVE  \A q \in Requests \ {r} :
                 cli'[q] = cli[q] /\ pc'[q] = pc[q] /\ reply'[q] = reply[q] /\ req'[q] = req[q]
  BY ZenonT(60), <1>0, <1>3
  DEF Client, Reserve, Resume, Find, PostStart, FindStarted, Refused, SaveActive, ClearPending,
      CaptureStop, MarkActive, CreateDraft, RecoverStop, JournalStop, PostStop, LoseStopAnswer,
      FinalizeStop, Untrack, Quit, Launch, Goes, Ended, SendStart, RepeatStart, SendStop, Send, vars
<1> QED
  BY <1>1, <1>2, <1>3

------------------------------------------------------------------------------
(* No interval is drafted twice. *)

\* A stop becomes a client's claim when its own compare-and-swap succeeds.
LEMMA ClaimLands ==
    ASSUME IInv, LinkInv, NEW r \in Requests, Serve(r), Claims(r)'
    PROVE  StopLands(r) /\ cli'[r] = cli[r] /\ req[r].revision = cli[r].revision
<1>1. /\ Progress(r) /\ pc[r] # "idle" /\ pc'[r] = "idle" /\ reply'[r] # None
      /\ reply'[r].changed
  BY ServeIsProgress, SlotStep DEF Claims, Answered
<1>2. /\ pc \in [Requests -> Pcs] /\ reply \in [Requests -> Reply]
      /\ cli \in [Requests -> Process \union {None}]
  BY DEF LinkInv, CliTypeOK, IInv, TypeOK
<1>3. cli'[r] # None /\ cli'[r].at = "stopping"
  BY DEF Claims, At
<1>4. \/ cli'[r] = cli[r]
      \/ At(r, "posted") /\ Goes(r, "unheard")
  BY <1>2, <1>3 DEF Serve, Respond, Break, Released, Goes
<1>5. cli'[r] = cli[r]
  <2>1. "unheard" \in Steps
    BY DEF Steps
  <2> QED
    BY <1>3, <1>4, <2>1, Going DEF LinkInv, At
<1>6. req[r].kind = "stop" /\ req[r].revision = cli[r].revision
  BY <1>1, <1>3, <1>5 DEF LinkInv, SlotsMatch
<1>7. CASE CasStop(r)
  <2>1. pc[r] = "stopping"
    BY <1>7 DEF CasStop
  <2>2. Snapshot(r) /\ WriteStop(r)
    <3>1. CASE ~Snapshot(r)
      BY <1>1, <1>2, <1>7, <3>1 DEF CasStop, Answer, Conflict
    <3> QED
      BY <1>7, <3>1 DEF CasStop
  <2> QED
    BY <1>5, <1>6, <2>1, <2>2 DEF StopLands
<1>8. CASE ReadForStop(r)
  BY <1>1, <1>2, <1>8, TimerAssumption DEF ReadForStop, Answer, Proceed, Conflict
<1>9. CASE Fail(r) \/ LandLate(r) \/ ReadForStart(r) \/ CasStart(r) \/ Classify(r)
           \/ ReadForLegacyStop(r)
  BY <1>1, <1>2, <1>6, <1>9
  DEF Fail, LandLate, Answer, ReadForStart, CasStart, Classify, ReadForLegacyStop, IInv, Kinds
<1> QED
  BY <1>1, <1>5, <1>6, <1>7, <1>8, <1>9 DEF Progress

\* What has been drafted, or claimed, is over.
LEMMA TakenIsOver ==
    ASSUME IInv, LinkInv, JournalInv, DraftedInv
    PROVE  /\ \A d \in Drafts : Pending(d) =>
                  /\ drafts[d].interval \in Receipt /\ drafts[d].interval.stoppedAt # None
                  /\ Over(drafts[d].interval.revision)
           /\ \A r \in Requests : Claims(r) =>
                  /\ reply[r].session \in sessions /\ reply[r].session \in Receipt
                  /\ reply[r].session.revision = cli[r].revision
                  /\ Over(cli[r].revision)
<1>1. ASSUME NEW d \in Drafts, Pending(d)
      PROVE  /\ drafts[d].interval \in Receipt /\ drafts[d].interval.stoppedAt # None
             /\ Over(drafts[d].interval.revision)
  <2>1. drafts[d].interval \in Receipt
    BY <1>1 DEF Pending, LinkInv, CliTypeOK, Draft
  <2>2. drafts[d].interval.stoppedAt # None
    BY <2>1, TimerAssumption DEF Receipt
  <2> QED
    BY <1>1, <2>1, <2>2 DEF DraftedInv, JournalInv, StoppedIsOver
<1>2. ASSUME NEW r \in Requests, Claims(r)
      PROVE  /\ reply[r].session \in sessions /\ reply[r].session \in Receipt
             /\ reply[r].session.revision = cli[r].revision
             /\ Over(cli[r].revision)
  BY <1>2, AnsweredReceipt, AnsweredIsOver
  DEF Claims, LinkInv, JournalInv, AnswersFit, At, Answered
<1> QED
  BY <1>1, <1>2

\* Nothing new is drafted or claimed.
LEMMA QuietDrafted ==
    ASSUME IInv, LinkInv, JournalInv, DraftedInv, [Next]_vars,
           \A d \in Drafts : drafts'[d] = drafts[d] \/ ~Pending(d)',
           \A q \in Requests : Claims(q)' => Claims(q) /\ cli'[q].revision = cli[q].revision
    PROVE  DraftedInv'
<1>1. \A d \in Drafts : Pending(d)' => Pending(d) /\ drafts'[d] = drafts[d]
  BY DEF Pending
<1>2. \A d \in Drafts : Pending(d)' => drafts'[d].interval \in sessions'
  BY <1>1, TakenIsOver, TimersMove DEF DraftedInv
<1>3. \A d, e \in Drafts : Pending(d)' /\ Pending(e)' /\ d # e
          => drafts'[d].interval.revision # drafts'[e].interval.revision
  BY <1>1 DEF DraftedInv
<1>4. \A r \in Requests, d \in Drafts : Claims(r)' /\ Pending(d)'
          => drafts'[d].interval.revision # cli'[r].revision
  BY <1>1 DEF DraftedInv
<1>5. \A r, q \in Requests : Claims(r)' /\ Claims(q)' /\ r # q
          => cli'[r].revision # cli'[q].revision
  BY DEF DraftedInv
<1> QED
  BY <1>2, <1>3, <1>4, <1>5 DEF DraftedInv

LEMMA StepDrafted ==
    ASSUME IInv, LinkInv, JournalInv, DraftedInv, [CliNext]_cliVars
    PROVE  DraftedInv'
<1> USE TimerAssumption, CliAssumption
<1>0. /\ [Next]_vars /\ CliTypeOK /\ SlotsMatch /\ AnswersFit
      /\ cli \in [Requests -> Process \union {None}]
      /\ drafts \in [Drafts -> Draft \union {None}]
      /\ pc \in [Requests -> Pcs] /\ reply \in [Requests -> Reply]
  BY StepTimer DEF LinkInv, CliTypeOK, IInv, TypeOK
\* A process that drafts and claims nothing.
<1>a. ASSUME NEW r \in Requests, Client(r) \/ Serve(r) \/ Device(r), ~Claims(r)',
             \A d \in Drafts : drafts'[d] = drafts[d] \/ ~Pending(d)'
      PROVE  DraftedInv'
  <2>1. \A q \in Requests : Claims(q)' => Claims(q) /\ cli'[q] = cli[q]
    BY <1>a, OthersAlone DEF Claims, At, Answered
  <2> QED
    BY <1>0, <1>a, <2>1, QuietDrafted
<1>1. ASSUME NEW r \in Requests, NEW o \in Operations, Reserve(r, o)
      PROVE  DraftedInv'
  <2>1. cli'[r].at = "post" /\ UNCHANGED drafts
    BY <1>0, <1>1 DEF Reserve, Launch, Starter, filesVars
  <2> QED
    BY <1>1, <1>a, <2>1 DEF Client, Claims, At
<1>2. ASSUME NEW r \in Requests, Resume(r)
      PROVE  DraftedInv'
  <2>1. cli'[r].at = "post" /\ UNCHANGED drafts
    BY <1>0, <1>2 DEF Resume, Launch, Starter, filesVars
  <2> QED
    BY <1>2, <1>a, <2>1 DEF Client, Claims, At
<1>3. ASSUME NEW r \in Requests, Find(r)
      PROVE  DraftedInv'
  <2>1. cli'[r].at = "save" /\ UNCHANGED drafts
    BY <1>0, <1>3 DEF Find, Launch, Starter, filesVars
  <2> QED
    BY <1>3, <1>a, <2>1 DEF Client, Claims, At
<1>4. ASSUME NEW r \in Requests, PostStart(r)
      PROVE  DraftedInv'
  <2>1. cli[r] # None /\ Goes(r, "posted") /\ "posted" \in Steps /\ UNCHANGED drafts
    BY <1>4 DEF PostStart, At, Steps, filesVars
  <2>2. ~Claims(r)'
    BY <1>0, <2>1, Going DEF Claims, At
  <2> QED
    BY <1>4, <1>a, <2>1, <2>2 DEF Client
<1>5. ASSUME NEW r \in Requests, FindStarted(r)
      PROVE  DraftedInv'
  <2>1. cli[r] # None /\ Goes(r, "save") /\ "save" \in Steps /\ UNCHANGED drafts
    BY <1>5 DEF FindStarted, At, Steps, filesVars
  <2>2. ~Claims(r)'
    BY <1>0, <2>1, Going DEF Claims, At
  <2> QED
    BY <1>5, <1>a, <2>1, <2>2 DEF Client
<1>6. ASSUME NEW r \in Requests, Refused(r)
      PROVE  DraftedInv'
  <2>1. cli[r] # None /\ Goes(r, "clear") /\ "clear" \in Steps /\ UNCHANGED drafts
    BY <1>6 DEF Refused, At, Steps, filesVars
  <2>2. ~Claims(r)'
    BY <1>0, <2>1, Going DEF Claims, At
  <2> QED
    BY <1>6, <1>a, <2>1, <2>2 DEF Client
<1>7. ASSUME NEW r \in Requests, SaveActive(r)
      PROVE  DraftedInv'
  <2>1. cli[r] # None /\ Goes(r, "clear") /\ "clear" \in Steps /\ UNCHANGED drafts
    BY <1>7 DEF SaveActive, At, Steps, filesVars
  <2>2. ~Claims(r)'
    BY <1>0, <2>1, Going DEF Claims, At
  <2> QED
    BY <1>7, <1>a, <2>1, <2>2 DEF Client
<1>8. ASSUME NEW r \in Requests, ClearPending(r)
      PROVE  DraftedInv'
  <2>1. cli[r] # None /\ cli' = Ended(r) /\ UNCHANGED drafts
    BY <1>8 DEF ClearPending, At, Steps, filesVars
  <2>2. ~Claims(r)'
    BY <1>0, <2>1, Ending DEF Claims, At
  <2> QED
    BY <1>8, <1>a, <2>1, <2>2 DEF Client
<1>9. ASSUME NEW r \in Requests, CaptureStop(r)
      PROVE  DraftedInv'
  <2>1. cli'[r].at = "track" /\ UNCHANGED drafts
    BY <1>0, <1>9 DEF CaptureStop, Launch, Starter, filesVars
  <2> QED
    BY <1>9, <1>a, <2>1 DEF Client, Claims, At
<1>10. ASSUME NEW r \in Requests, MarkActive(r)
      PROVE  DraftedInv'
  <2>1. cli[r] # None /\ Goes(r, "create") /\ "create" \in Steps /\ UNCHANGED drafts
    BY <1>10 DEF MarkActive, At, Steps, filesVars
  <2>2. ~Claims(r)'
    BY <1>0, <2>1, Going DEF Claims, At
  <2> QED
    BY <1>10, <1>a, <2>1, <2>2 DEF Client
<1>11. ASSUME NEW r \in Requests, JournalStop(r)
      PROVE  DraftedInv'
  <2>1. /\ cli[r] # None /\ Goes(r, "stop") /\ "stop" \in Steps
        /\ drafts' = [drafts EXCEPT ![cli[r].draft] = StopRequest(r, "stopping")]
    BY <1>11 DEF JournalStop, At, Steps, Write
  <2>2. \A d \in Drafts : drafts'[d] = drafts[d] \/ drafts'[d].status = "stopping"
    BY <1>0, <2>1 DEF StopRequest
  <2>3. ~Claims(r)'
    BY <1>0, <2>1, Going DEF Claims, At
  <2> QED
    BY <1>11, <1>a, <2>2, <2>3 DEF Client, Pending
<1>12. ASSUME NEW r \in Requests, PostStop(r)
      PROVE  DraftedInv'
  <2>1. pc'[r] = "sent" /\ UNCHANGED drafts
    BY <1>0, <1>12 DEF PostStop, SendStop, Send, filesVars
  <2> QED
    BY <1>12, <1>a, <2>1 DEF Client, Claims, Answered
<1>13. ASSUME NEW r \in Requests, NEW d \in Drafts, RecoverStop(r, d)
      PROVE  DraftedInv'
  <2>1. cli'[r].at = "recovering" /\ UNCHANGED drafts
    BY <1>0, <1>13 DEF RecoverStop, Launch, Starter, filesVars
  <2> QED
    BY <1>13, <1>a, <2>1 DEF Client, Claims, At
<1>14. ASSUME NEW r \in Requests, LoseStopAnswer(r)
      PROVE  DraftedInv'
  <2>1. /\ cli[r] # None /\ cli' = Ended(r)
        /\ drafts' = [drafts EXCEPT ![cli[r].draft] = StopRequest(r, "outcome_unknown")]
    BY <1>14 DEF LoseStopAnswer, At, Steps, Write
  <2>2. \A d \in Drafts : drafts'[d] = drafts[d] \/ drafts'[d].status = "outcome_unknown"
    BY <1>0, <2>1 DEF StopRequest
  <2>3. ~Claims(r)'
    BY <1>0, <2>1, Ending DEF Claims, At
  <2> QED
    BY <1>14, <1>a, <2>2, <2>3 DEF Client, Pending
<1>15. ASSUME NEW r \in Requests, Untrack(r)
      PROVE  DraftedInv'
  <2>1. cli[r] # None /\ cli' = Ended(r) /\ UNCHANGED drafts
    BY <1>15 DEF Untrack, At, Steps, filesVars
  <2>2. ~Claims(r)'
    BY <1>0, <2>1, Ending DEF Claims, At
  <2> QED
    BY <1>15, <1>a, <2>1, <2>2 DEF Client
<1>16. ASSUME NEW r \in Requests, Quit(r)
      PROVE  DraftedInv'
  <2>1. cli[r] # None /\ cli' = Ended(r) /\ UNCHANGED drafts
    BY <1>16 DEF Quit, At, Steps, filesVars
  <2>2. ~Claims(r)'
    BY <1>0, <2>1, Ending DEF Claims, At
  <2> QED
    BY <1>16, <1>a, <2>1, <2>2 DEF Client
<1>17. ASSUME NEW r \in Requests, NEW d \in Drafts, CreateDraft(r, d)
      PROVE  DraftedInv'
  <2>1. /\ cli[r] \in Process
        /\ cli' = [cli EXCEPT ![r] = [cli[r] EXCEPT !.at = "journal", !.draft = d]]
        /\ drafts' = [drafts EXCEPT ![d] = [status |-> "pending_stop", timerId |-> cli[r].timerId]]
    BY <1>0, <1>17 DEF CreateDraft, At
  <2>2. ~Claims(r)'
    BY <1>0, <2>1 DEF Process, Claims, At
  <2>3. \A e \in Drafts : drafts'[e] = drafts[e] \/ drafts'[e].status = "pending_stop"
    BY <1>0, <2>1
  <2> QED
    BY <1>17, <1>a, <2>2, <2>3 DEF Client, Pending
\* The one draft that can be submitted is that of a claim, which it uses up.
<1>18. ASSUME NEW r \in Requests, FinalizeStop(r)
      PROVE  DraftedInv'
  <2> DEFINE d == cli[r].draft
             new == IF Fresh(r) THEN [status |-> "pending", interval |-> Interval(r)]
                                ELSE StopRequest(r, "discarded")
  <2>1. /\ cli[r] # None /\ cli[r].at \in {"stopping", "recovering"} /\ Answered(r)
        /\ Goes(r, "untrack") /\ "untrack" \in Steps /\ drafts' = [drafts EXCEPT ![d] = new]
        /\ Believed(r)
    BY <1>18 DEF FinalizeStop, At, Steps, Write
  <2>2. d \in Drafts /\ reply[r].session \in Receipt /\ reply[r].session \in sessions
    BY <1>0, <2>1, AnsweredReceipt DEF SlotsMatch, At
  <2>3. ~Claims(r)'
    BY <1>0, <2>1, Going DEF Claims, At
  <2>4. drafts'[d] = new /\ \A e \in Drafts \ {d} : drafts'[e] = drafts[e]
    BY <1>0, <2>1, <2>2
  <2>5. CASE ~Fresh(r)
    <3>1. new.status = "discarded"
      BY <2>5 DEF StopRequest
    <3>2. \A e \in Drafts : drafts'[e] = drafts[e] \/ ~Pending(e)'
      BY <2>4, <3>1 DEF Pending
    <3> QED
      BY <1>18, <1>a, <2>3, <3>2 DEF Client
  <2>6. CASE Fresh(r)
    <3>1. cli[r].at = "stopping"
      BY <1>0, <2>1, <2>2 DEF SlotsMatch, Believed, Receipt
    <3>2. Claims(r)
      BY <2>1, <2>6, <3>1 DEF Fresh, Claims, At
    <3>3. new.status = "pending" /\ new.interval = reply[r].session
      BY <2>6 DEF Interval
    <3>4. reply[r].session.revision = cli[r].revision
      BY <3>2, TakenIsOver
    <3>5. /\ \A q \in Requests : Claims(q)' => q # r /\ Claims(q) /\ cli'[q] = cli[q]
          /\ UNCHANGED sessions
      BY <1>18, <2>3, OthersAlone DEF Client, Claims, At, Answered, FinalizeStop, vars
    <3>6. \A e \in Drafts \ {d} : Pending(e)' => Pending(e) /\ drafts'[e] = drafts[e]
      BY <2>4 DEF Pending
    <3>7. drafts'[d].interval = reply[r].session
      BY <2>4, <3>3
    <3> HIDE DEF d, new
    <3> QED
      BY <2>2, <3>2, <3>4, <3>5, <3>6, <3>7 DEF DraftedInv
  <2> QED
    BY <2>5, <2>6
\* A claim is about the timer that this step stops; the others are over already.
<1>19. ASSUME NEW r \in Requests, Serve(r)
      PROVE  DraftedInv'
  <2>1. UNCHANGED drafts
    BY <1>19 DEF Serve, Respond, Break, filesVars
  <2>2. CASE ~Claims(r)'
    BY <1>19, <1>a, <2>1, <2>2
  <2>3. CASE Claims(r)'
    <3>1. StopLands(r) /\ cli'[r] = cli[r] /\ req[r].revision = cli[r].revision
      BY <1>19, <2>3, ClaimLands
    <3>2. profile.timerRevision = cli[r].revision
      BY <3>1 DEF StopLands, Snapshot, IInv, SeenBefore
    <3>3. Number(cli[r].revision) \in Nat
      BY <3>2 DEF IInv, TypeOK, Profile, Revisions, Number
    <3>4. ~Over(cli[r].revision)
      BY <3>2, <3>3 DEF Over
    <3>5. \A q \in Requests \ {r} : Claims(q)' => Claims(q) /\ cli'[q] = cli[q]
      BY <1>19, OthersAlone DEF Claims, At, Answered
    <3>6. \A q \in Requests \ {r} : Claims(q)' => cli'[q].revision # cli'[r].revision
      BY <3>1, <3>4, <3>5, TakenIsOver
    <3>7. \A e \in Drafts : Pending(e)' => Pending(e) /\ drafts'[e] = drafts[e]
      BY <2>1 DEF Pending
    <3>8. \A e \in Drafts : Pending(e)' => /\ drafts'[e].interval.revision # cli'[r].revision
                                           /\ drafts'[e].interval \in sessions'
      BY <1>0, <3>1, <3>4, <3>7, TakenIsOver, TimersMove DEF DraftedInv
    <3> QED
      BY <3>5, <3>6, <3>7, <3>8 DEF DraftedInv
  <2> QED
    BY <2>2, <2>3
<1>20. ASSUME NEW r \in Requests, Device(r)
      PROVE  DraftedInv'
  <2>1. UNCHANGED drafts /\ cli'[r] = None
    BY <1>20 DEF Device, clientVars, filesVars
  <2> QED
    BY <1>20, <1>a, <2>1 DEF Claims, At
<1>21. ASSUME UNCHANGED <<pc, reply, cli, drafts>>
      PROVE  DraftedInv'
  BY <1>0, <1>21, QuietDrafted DEF Claims, At, Answered
<1> QED
  BY <1>1, <1>2, <1>3, <1>4, <1>5, <1>6, <1>7, <1>8, <1>9, <1>10, <1>11, <1>12, <1>13, <1>14, <1>15, <1>16, <1>17, <1>18, <1>19, <1>20, <1>21
  DEF CliNext, Client, Tick, clientVars, filesVars, cliVars, vars

\* No two drafts that can be submitted hold the same interval, and each holds one
\* that a timer really ran for: an answer that promises a new interval is given once,
\* by the write that ended the timer.
THEOREM DraftedOnce == CliSpec => []IntervalsDraftedOnce
<1>1. CliInit => DraftedInv
  BY DEF CliInit, DraftedInv, Pending, Claims, At
<1>2. IInv /\ LinkInv /\ JournalInv /\ DraftedInv /\ [CliNext]_cliVars => DraftedInv'
  BY StepDrafted
<1>3. DraftedInv => IntervalsDraftedOnce
  BY DEF DraftedInv, IntervalsDraftedOnce, Pending
<1> QED
  BY <1>1, <1>2, <1>3, CliInvariance, PTL DEF CliSpec

------------------------------------------------------------------------------
(* No running timer of the client's is forgotten. *)

\* Only a start that lands starts an operation, and what is over stays over.
LEMMA OnlyStartsStart ==
    ASSUME IInv, [Next]_vars
    PROVE  /\ \A o \in Operations : Finished(o) => Finished(o)'
           /\ \/ \A o \in Operations : Unstarted(o) => Unstarted(o)'
              \/ \E r \in Requests :
                     /\ Progress(r) /\ StartLands(r) /\ pc'[r] = "idle"
                     /\ reply'[r] # None \/ pc[r] = "lost"
                     /\ \A o \in Operations \ {req[r].timerId} : Unstarted(o) => Unstarted(o)'
<1>1. \A o \in Operations : Finished(o) => Finished(o)'
  BY TimersMove DEF Finished
<1>2. CASE UNCHANGED <<profile, sessions>>
  BY <1>1, <1>2 DEF Unstarted
<1>3. ASSUME NEW r \in Requests, StopLands(r)
      PROVE  \A o \in Operations : Unstarted(o) => Unstarted(o)'
  <2>1. /\ sessions' = (sessions \ {Running}) \union {Stopped(r)} /\ Running \in sessions
        /\ Stopped(r) = [Running EXCEPT !.stoppedAt = req[r].instant]
    BY <1>3, WriteStopSafe DEF StopLands
  <2>2. Stopped(r).timerId = Running.timerId
    BY <2>1 DEF Running
  <2> QED
    BY <2>1, <2>2 DEF Unstarted
<1>4. ASSUME NEW r \in Requests, StartLands(r)
      PROVE  \A o \in Operations \ {req[r].timerId} : Unstarted(o) => Unstarted(o)'
  <2>1. sessions' = sessions \union {Started(r)}
    BY <1>4, WriteStartSafe DEF StartLands
  <2>2. Started(r).timerId = req[r].timerId
    BY DEF Started
  <2> QED
    BY <2>1, <2>2 DEF Unstarted
<1> QED
  BY <1>1, <1>2, <1>3, <1>4, OnlyLandingsMove

\* An operation is consumed when its timer is over.
LEMMA ConsumedIsFinished ==
    ASSUME IInv, NEW r \in Requests, Progress(r), reply'[r] # None,
           reply'[r].outcome = "consumed"
    PROVE  Finished(req[r].timerId) /\ UNCHANGED sessions
<1>1. pc \in [Requests -> Pcs] /\ reply \in [Requests -> Reply]
  BY DEF IInv, TypeOK
<1>2. ASSUME NEW instant, NEW history, history = profile.timerStartHistory,
             IsConsumed(retainedTimerStartHistory(history, instant), req[r].timerId),
             ~activeTimer \/ profile.timerId # req[r].timerId
      PROVE  Finished(req[r].timerId)
  <2>1. PICK e \in profile.timerStartHistory : e.operationId = req[r].timerId
    BY <1>2 DEF IsConsumed, retainedTimerStartHistory
  <2>2. PICK s \in sessions : s.timerId = req[r].timerId
    BY <2>1 DEF IInv, SessionsMatch
  <2>3. s.stoppedAt # None
    BY <1>2, <2>2 DEF IInv, SessionsMatch, Running
  <2> QED
    BY <1>2, <2>2, <2>3 DEF Finished
<1>3. CASE ReadForStart(r)
  <2>1. UNCHANGED sessions
    BY <1>3 DEF ReadForStart
  <2>2. ASSUME NEW message, Answer(r, message), message = None \/ message.outcome # "consumed"
        PROVE  FALSE
    BY <1>1, <2>2 DEF Answer
  <2>3. Existing.outcome # "consumed" /\ Conflict = None
    BY DEF Existing, Conflict
  <2>4. ~activeTimer
    BY <1>3, <2>2, <2>3 DEF ReadForStart
  <2>5. IsConsumed(retainedTimerStartHistory(profile.timerStartHistory, Instant(r)),
                   req[r].timerId)
    <3>1. reply[r] = None
      BY SlotStep
    <3>2. ~Proceed(r, "starting")
      BY <3>1 DEF Proceed
    <3> QED
      BY <1>3, <2>2, <2>3, <2>4, <3>2 DEF ReadForStart
  <2> QED
    BY <1>2, <2>1, <2>4, <2>5
<1>4. CASE Classify(r)
  BY <1>1, <1>2, <1>4 DEF Classify, Answer, Existing, Conflict
<1>5. CASE CasStart(r) \/ Fail(r) \/ LandLate(r)
  BY <1>1, <1>5, SlotStep DEF CasStart, Fail, LandLate, Answer
<1>6. CASE ReadForLegacyStop(r) \/ ReadForStop(r) \/ CasStop(r)
  BY <1>1, <1>6, SlotStep
  DEF ReadForLegacyStop, ReadForStop, CasStop, Proceed, Answer, Conflict
<1> QED
  BY <1>3, <1>4, <1>5, <1>6 DEF Progress

\* A timer that ran was asked for.
LEMMA RanIsIssued ==
    ASSUME OnceInv, NEW o \in Operations, ~Unstarted(o)
    PROVE  issued[o] # None
  BY TimerAssumption DEF OnceInv, Remembers, Unstarted

\* A step of slot r that starts nothing of the client's, and clears nothing.
LEMMA QuietRemembered ==
    ASSUME LinkInv, LinkInv', RememberedInv, NEW r \in Requests,
           \A q \in Requests \ {r} :
               /\ cli'[q] = cli[q] /\ pc'[q] = pc[q] /\ reply'[q] = reply[q]
               /\ req'[q] = req[q],
           UNCHANGED pendingStart,
           \A o \in Operations :
               /\ Finished(o) => Finished(o)'
               /\ Unstarted(o) =>
                      \/ Unstarted(o)'
                      \/ MayStart(r, o)
               /\ issued[o] # None => issued'[o] # None
               /\ \/ started'[o] = started[o]
                  \/ started[o] # "unknown" /\ started'[o] = "settled"
               /\ MayStart(r, o)' =>
                      \/ MayStart(r, o)
                      \/ /\ started[o] # "refused"
                         /\ \A q \in Requests \ {r} : FirstTry(q)' => cli'[q].timerId # o,
           IdKnown(r)', NotYet(r)', Clears(r)',
           FirstTry(r)' => FirstTry(r) /\ cli'[r].timerId = cli[r].timerId
    PROVE  RememberedInv'
<1>0. /\ \A q \in Requests : cli[q] # None => cli[q].timerId \in Operations
      /\ \A q \in Requests : cli'[q] # None => cli'[q].timerId \in Operations
      /\ pendingStart # None => pendingStart \in Operations
  BY DEF LinkInv, CliTypeOK, Process
<1>1. \A q \in Requests \ {r} : FirstTry(q)' => FirstTry(q) /\ cli'[q] = cli[q]
  BY <1>0 DEF FirstTry
<1>2. \A q \in Requests \ {r}, o \in Operations : MayStart(q, o)' <=> MayStart(q, o)
  BY DEF MayStart, At
<1>3. IdsKnown'
  BY <1>0 DEF RememberedInv, IdsKnown, IdKnown
<1>4. ASSUME NEW q \in Requests
      PROVE  NotYet(q)'
  <2>1. CASE q # r
    BY <1>0, <1>1, <2>1 DEF RememberedInv, FirstAlone, NotYet, FirstTry
  <2> QED
    BY <2>1
<1>5. ASSUME NEW q \in Requests, FirstTry(q)', NEW p \in Requests \ {q}
      PROVE  ~MayStart(p, cli[q].timerId)'
  <2>1. FirstTry(q) /\ cli'[q].timerId = cli[q].timerId
    BY <1>1, <1>5
  <2>2. started[cli[q].timerId] = "reserved" /\ cli[q].timerId \in Operations
    BY <1>0, <2>1 DEF FirstTry
  <2>3. ~MayStart(p, cli[q].timerId)
    BY <2>1 DEF RememberedInv, FirstAlone
  <2>4. \A o \in Operations : o = cli[q].timerId => ~MayStart(p, o)'
    BY <1>2, <1>5, <2>1, <2>2, <2>3
  <2> QED
    BY <2>1, <2>2, <2>4
<1>6. ReservedIsKept'
  <2>1. ASSUME NEW q \in Requests \ {r}
        PROVE  Clears(q)'
    BY <1>0, <2>1 DEF RememberedInv, ReservedIsKept, Clears, At
  <2> QED
    BY <2>1 DEF RememberedInv, ReservedIsKept
<1>7. RefusedNeverStarts'
  BY <1>2 DEF RememberedInv, RefusedNeverStarts
<1> QED
  BY <1>3, <1>4, <1>5, <1>6, <1>7 DEF RememberedInv, FirstAlone

LEMMA StepRemembered ==
    ASSUME GraceCovers, IInv, OnceInv, LinkInv, RememberedInv, [CliNext]_cliVars
    PROVE  RememberedInv'
<1> USE TimerAssumption, CliAssumption
<1>0. /\ [Next]_vars /\ LinkInv' /\ CliTypeOK /\ SlotsMatch /\ AnswersFit
      /\ IdsKnown /\ FirstAlone /\ ReservedIsKept /\ RefusedNeverStarts
      /\ cli \in [Requests -> Process \union {None}]
      /\ started \in [Operations -> Knowledge]
      /\ pc \in [Requests -> Pcs] /\ reply \in [Requests -> Reply]
      /\ req \in [Requests -> Request \union {None}]
      /\ issued \in [Operations -> [at: Nat, timestamp: Times] \union {None}]
  BY StepTimer, StepLink DEF LinkInv, RememberedInv, CliTypeOK, IInv, TypeOK
<1>a. /\ \A r \in Requests : cli[r] # None => cli[r] \in Process /\ cli[r].timerId \in Operations
      /\ pendingStart # None => pendingStart \in Operations
      /\ profile.timerId # None => profile.timerId \in Operations
      /\ activeTimer => Running \in sessions
  BY <1>0 DEF CliTypeOK, Process, IInv, TypeOK, Profile, TimerIds, SessionsMatch
<1>b. \A o \in Operations : Finished(o) => Finished(o)'
  BY <1>0, OnlyStartsStart
<1>c. \A o \in Operations : issued[o] = None =>
          /\ Unstarted(o)
          /\ \A q \in Requests : pc[q] # "idle" /\ req[q].kind = "start" => req[q].timerId # o
  BY <1>0, RanIsIssued DEF OnceInv, Timing, Young, IInv, Kinds
\* A process that is not about to start or to clear anything.
<1>d. ASSUME NEW r \in Requests, Client(r), UNCHANGED <<sessions, issued, pendingStart, started>>,
             \/ UNCHANGED <<pc, req>>
             \/ req'[r].kind = "stop",
             \/ cli'[r] = None
             \/ /\ cli[r] # None /\ cli[r].at # "gone"
                /\ cli'[r] # None /\ cli'[r].at \notin {"post", "posted", "clear"}
                /\ cli'[r].timerId = cli[r].timerId
                /\ cli'[r].at = "gone" \/ cli'[r].fresh = cli[r].fresh
             \/ /\ cli'[r] # None /\ cli'[r].at \notin {"post", "posted", "clear"}
                /\ ~cli'[r].fresh
                /\ cli'[r].timerId \in Operations /\ ~Unstarted(cli'[r].timerId)
      PROVE  RememberedInv'
  <2>1. \A o \in Operations : MayStart(r, o)' => MayStart(r, o)
    BY <1>d DEF MayStart, At
  <2>2. \A o \in Operations : cli'[r] # None /\ o = cli'[r].timerId =>
            issued[o] # None \/ started[o] # "unknown"
    BY <1>0, <1>d, RanIsIssued DEF IdsKnown, IdKnown
  <2>3. IdKnown(r)'
    BY <1>0, <1>a, <1>d, <2>2 DEF IdKnown
  <2>4. /\ NotYet(r)' /\ Clears(r)'
        /\ FirstTry(r)' => FirstTry(r) /\ cli'[r].timerId = cli[r].timerId
    BY <1>d DEF NotYet, Clears, At, FirstTry
  <2>5. \A o \in Operations : Unstarted(o) => Unstarted(o)'
    BY <1>d DEF Unstarted
  <2> QED
    BY <1>0, <1>b, <1>d, <2>1, <2>3, <2>4, <2>5, OthersAlone, QuietRemembered
<1>1. ASSUME NEW r \in Requests, NEW o \in Operations, Reserve(r, o)
      PROVE  RememberedInv'
  <2>1. /\ issued[o] = None /\ started[o] = "unknown" /\ UNCHANGED <<vars, drafts>>
        /\ cli[r] = None /\ pc[r] = "idle" /\ cli' = [cli EXCEPT ![r] = Starter(o, "post", TRUE)]
        /\ pendingStart = None /\ pendingStart' = o
        /\ started' = [started EXCEPT ![o] = "reserved"]
    BY <1>1 DEF Reserve, Launch, Free
  <2>2. /\ cli'[r] = Starter(o, "post", TRUE)
        /\ \A q \in Requests \ {r} : cli'[q] = cli[q]
        /\ started'[o] = "reserved" /\ \A p \in Operations \ {o} : started'[p] = started[p]
    BY <1>0, <2>1
  <2>3. /\ cli'[r].at = "post" /\ cli'[r].timerId = o /\ cli'[r].fresh
    BY <2>2 DEF Starter
  <2>4. UNCHANGED <<pc, req, reply, issued, sessions>>
    BY <2>1 DEF vars
  <2>5. Unstarted(o) /\ \A q \in Requests : ~MayStart(q, o)
    BY <1>0, <1>c, <2>1 DEF MayStart, At, IdsKnown, IdKnown
  <2>6. \A q \in Requests \ {r}, p \in Operations : MayStart(q, p)' <=> MayStart(q, p)
    BY <2>2, <2>4 DEF MayStart, At
  <2>7. \A p \in Operations \ {o} : MayStart(r, p)' => MayStart(r, p)
    BY <2>3, <2>4 DEF MayStart, At
  <2>8. \A p \in Operations : (Unstarted(p)' <=> Unstarted(p)) /\ (Finished(p)' <=> Finished(p))
    BY <2>4 DEF Unstarted, Finished
  <2>9. IdsKnown'
    BY <1>0, <1>a, <2>1, <2>2, <2>3, <2>4 DEF IdsKnown, IdKnown
  <2>10. ASSUME NEW q \in Requests
         PROVE  NotYet(q)' /\ (FirstTry(q)' => \A p \in Requests \ {q} : ~MayStart(p, cli[q].timerId)')
    <3>1. CASE q = r
      BY <2>3, <2>5, <2>6, <2>8, <3>1 DEF NotYet, FirstTry
    <3>2. CASE q # r
      <4>1. cli'[q] = cli[q] /\ (cli[q] # None => cli[q].timerId \in Operations)
        BY <1>a, <2>2, <3>2
      <4>2. CASE ~FirstTry(q)'
        BY <4>2 DEF NotYet
      <4>3. CASE FirstTry(q)'
        <5>1. cli[q] # None /\ cli[q].timerId # o
          BY <1>0, <2>1, <4>1, <4>3 DEF FirstTry, IdsKnown, IdKnown
        <5> QED
          BY <1>0, <2>2, <2>4, <2>6, <2>7, <2>8, <4>1, <4>3, <5>1 DEF NotYet, FirstTry, FirstAlone
      <4> QED
        BY <4>2, <4>3
    <3> QED
      BY <3>1, <3>2
  <2>11. ReservedIsKept'
    <3>1. \A p \in Operations : started'[p] = "reserved" => pendingStart' = p \/ Finished(p)'
      BY <1>0, <1>a, <2>1, <2>2, <2>8 DEF ReservedIsKept
    <3>2. Clears(r)'
      BY <2>3 DEF Clears, At
    <3>3. ASSUME NEW q \in Requests \ {r}
          PROVE  Clears(q)'
      <4>1. cli'[q] = cli[q] /\ Clears(q) /\ (cli[q] # None => cli[q].timerId \in Operations)
        BY <1>0, <1>a, <2>2 DEF ReservedIsKept
      <4>2. At(q, "clear") => cli[q].timerId # o
        BY <1>0, <2>1 DEF IdsKnown, IdKnown, At
      <4> QED
        BY <2>2, <2>4, <2>8, <4>1, <4>2 DEF Clears, At
    <3> QED
      BY <3>1, <3>2, <3>3 DEF ReservedIsKept
  <2>12. RefusedNeverStarts'
    BY <1>0, <2>1, <2>2, <2>6, <2>7, <2>8 DEF RefusedNeverStarts
  <2> QED
    BY <2>9, <2>10, <2>11, <2>12 DEF RememberedInv, FirstAlone
<1>2. ASSUME NEW r \in Requests, Resume(r)
      PROVE  RememberedInv'
  <2>1. /\ pendingStart # None /\ pendingStart \in Operations
        /\ cli' = [cli EXCEPT ![r] = Starter(pendingStart, "post", FALSE)]
        /\ started' = [started EXCEPT ![pendingStart] =
                           IF @ = "reserved" /\ FirstAttempt(pendingStart) THEN "settled" ELSE @]
        /\ UNCHANGED <<vars, pendingStart>>
    BY <1>a, <1>2 DEF Resume, Launch, filesVars
  <2>2. cli'[r].at = "post" /\ cli'[r].timerId = pendingStart /\ ~cli'[r].fresh
    BY <1>0, <2>1 DEF Starter
  <2>3. /\ started[pendingStart] \notin {"unknown", "refused"}
        /\ \A o \in Operations : \/ started'[o] = started[o]
                                 \/ started[o] # "unknown" /\ started'[o] = "settled"
        /\ FirstAttempt(pendingStart) => started'[pendingStart] # "reserved"
    BY <1>0, <2>1 DEF IdsKnown, RefusedNeverStarts
  <2>4. IdKnown(r)' /\ NotYet(r)' /\ Clears(r)' /\ ~FirstTry(r)'
    BY <2>1, <2>2, <2>3 DEF IdKnown, NotYet, Clears, At, FirstTry
  <2>5. \A q \in Requests \ {r} : FirstTry(q)' => cli'[q].timerId # pendingStart
    BY <1>0, <2>1, <2>3 DEF FirstTry, FirstAttempt
  <2>6. \A o \in Operations : MayStart(r, o)' => MayStart(r, o) \/ o = pendingStart
    BY <2>1, <2>2 DEF MayStart, At, vars
  <2>7. UNCHANGED <<sessions, issued>>
    BY <2>1 DEF vars
  <2>8. \A o \in Operations : Unstarted(o) => Unstarted(o)'
    BY <2>7 DEF Unstarted
  <2>9. Client(r)
    BY <1>2 DEF Client
  <2> QED
    BY <1>0, <1>b, <2>1, <2>3, <2>4, <2>5, <2>6, <2>7, <2>8, <2>9, OthersAlone, QuietRemembered
<1>3. ASSUME NEW r \in Requests, Find(r)
      PROVE  RememberedInv'
  <2>1. /\ activeTimer /\ profile.timerId # None
        /\ cli'[r].at = "save" /\ cli'[r].timerId = profile.timerId /\ ~cli'[r].fresh
        /\ UNCHANGED <<vars, pendingStart, started>>
    BY <1>0, <1>3 DEF Find, Launch, Starter, filesVars
  <2>2. ~Unstarted(profile.timerId)
    BY <1>a, <2>1 DEF Unstarted, Running
  <2>3. cli'[r] # None
    <3>1. profile \in Profile /\ profile.timerId \in Operations
      BY <1>a, <2>1 DEF IInv, TypeOK
    <3>2. \E process \in Process : cli' = [cli EXCEPT ![r] = process]
      BY <1>3, <3>1
      DEF Find, Launch, Starter, Process, Steps, Times, Revisions, Profile
    <3> QED
      BY <1>0, <3>2
  <2> QED
    BY <1>a, <1>d, <1>3, <2>1, <2>2, <2>3 DEF Client, vars
<1>4. ASSUME NEW r \in Requests, CaptureStop(r)
      PROVE  RememberedInv'
  <2>1. /\ activeTimer /\ profile.timerId # None
        /\ cli'[r].at = "track" /\ cli'[r].timerId = profile.timerId /\ ~cli'[r].fresh
        /\ UNCHANGED <<vars, pendingStart, started>>
    BY <1>0, <1>4 DEF CaptureStop, Launch, Starter, filesVars
  <2>2. ~Unstarted(profile.timerId)
    BY <1>a, <2>1 DEF Unstarted, Running
  <2>3. cli'[r] # None
    <3>1. profile \in Profile /\ profile.timerId \in Operations
      BY <1>a, <2>1 DEF IInv, TypeOK
    <3>2. \E process \in Process : cli' = [cli EXCEPT ![r] = process]
      BY <1>4, <3>1
      DEF CaptureStop, Launch, Starter, Process, Steps, Times, Revisions, Profile
    <3> QED
      BY <1>0, <3>2
  <2> QED
    BY <1>a, <1>d, <1>4, <2>1, <2>2, <2>3 DEF Client, vars
<1>5. ASSUME NEW r \in Requests, FindStarted(r)
      PROVE  RememberedInv'
  <2>1. /\ cli[r] # None /\ cli[r].at # "gone" /\ Goes(r, "save") /\ "save" \in Steps
        /\ UNCHANGED <<vars, pendingStart, started>>
    BY <1>0, <1>5 DEF FindStarted, At, Steps, filesVars
  <2> QED
    BY <1>0, <1>d, <1>5, <2>1, Going DEF Client, vars
<1>6. ASSUME NEW r \in Requests, MarkActive(r)
      PROVE  RememberedInv'
  <2>1. /\ cli[r] # None /\ cli[r].at # "gone" /\ Goes(r, "create") /\ "create" \in Steps
        /\ UNCHANGED <<vars, pendingStart, started>>
    BY <1>0, <1>6 DEF MarkActive, At, Steps, filesVars
  <2> QED
    BY <1>0, <1>d, <1>6, <2>1, Going DEF Client, vars
<1>7. ASSUME NEW r \in Requests, JournalStop(r)
      PROVE  RememberedInv'
  <2>1. /\ cli[r] # None /\ cli[r].at # "gone" /\ Goes(r, "stop") /\ "stop" \in Steps
        /\ UNCHANGED <<vars, pendingStart, started>>
    BY <1>0, <1>7 DEF JournalStop, At, Steps, filesVars
  <2> QED
    BY <1>0, <1>d, <1>7, <2>1, Going DEF Client, vars
<1>8. ASSUME NEW r \in Requests, PostStop(r)
      PROVE  RememberedInv'
  <2>1. /\ cli[r] # None /\ cli[r].at # "gone" /\ Goes(r, "stopping") /\ "stopping" \in Steps
        /\ UNCHANGED <<sessions, issued, pendingStart, started>> /\ req'[r].kind = "stop"
    BY <1>0, <1>8 DEF PostStop, SendStop, Send, At, Steps, filesVars
  <2> QED
    BY <1>0, <1>d, <1>8, <2>1, Going DEF Client, vars
<1>9. ASSUME NEW r \in Requests, FinalizeStop(r)
      PROVE  RememberedInv'
  <2>1. /\ cli[r] # None /\ cli[r].at # "gone" /\ Goes(r, "untrack") /\ "untrack" \in Steps
        /\ UNCHANGED <<vars, pendingStart, started>>
    BY <1>0, <1>9 DEF FinalizeStop, At, Steps, filesVars
  <2> QED
    BY <1>0, <1>d, <1>9, <2>1, Going DEF Client, vars
<1>10. ASSUME NEW r \in Requests, LoseStopAnswer(r)
      PROVE  RememberedInv'
  <2>1. /\ cli[r] # None /\ cli[r].at # "gone" /\ cli' = Ended(r)
        /\ UNCHANGED <<vars, pendingStart, started>>
    BY <1>0, <1>10 DEF LoseStopAnswer, At, Steps, filesVars
  <2> QED
    BY <1>0, <1>d, <1>10, <2>1, Ending DEF Client, vars
<1>11. ASSUME NEW r \in Requests, Untrack(r)
      PROVE  RememberedInv'
  <2>1. /\ cli[r] # None /\ cli[r].at # "gone" /\ cli' = Ended(r)
        /\ UNCHANGED <<vars, pendingStart, started>>
    BY <1>0, <1>11 DEF Untrack, At, Steps, filesVars
  <2> QED
    BY <1>0, <1>d, <1>11, <2>1, Ending DEF Client, vars
<1>12. ASSUME NEW r \in Requests, Quit(r)
      PROVE  RememberedInv'
  <2>1. /\ cli[r] # None /\ cli[r].at # "gone" /\ cli' = Ended(r)
        /\ UNCHANGED <<vars, pendingStart, started>>
    BY <1>0, <1>12 DEF Quit, At, Steps, filesVars
  <2> QED
    BY <1>0, <1>d, <1>12, <2>1, Ending DEF Client, vars
<1>13. ASSUME NEW r \in Requests, NEW d \in Drafts, CreateDraft(r, d)
      PROVE  RememberedInv'
  <2>1. /\ cli[r] \in Process /\ cli[r].at = "create"
        /\ cli' = [cli EXCEPT ![r] = [cli[r] EXCEPT !.at = "journal", !.draft = d]]
        /\ UNCHANGED <<vars, pendingStart, started>>
    BY <1>0, <1>13 DEF CreateDraft, At
  <2>2. /\ cli'[r].at = "journal" /\ cli'[r].timerId = cli[r].timerId
        /\ cli'[r].fresh = cli[r].fresh /\ cli'[r] # None
    <3>1. [cli[r] EXCEPT !.at = "journal", !.draft = d] \in Process
      BY <2>1 DEF Process, Steps
    <3> QED
      BY <1>0, <2>1, <3>1 DEF Process
  <2> QED
    BY <1>0, <1>d, <1>13, <2>1, <2>2 DEF Client, vars
<1>14. ASSUME NEW r \in Requests, NEW d \in Drafts, RecoverStop(r, d)
      PROVE  RememberedInv'
  <2> DEFINE new == [at |-> "recovering", timerId |-> drafts[d].timerId,
                     revision |-> drafts[d].revision, startTime |-> None,
                     fresh |-> FALSE, draft |-> d]
  <2>1. /\ drafts[d] # None /\ drafts[d].status \in {"stopping", "outcome_unknown"}
        /\ cli' = [cli EXCEPT ![r] = new]
        /\ UNCHANGED <<sessions, issued, pendingStart, started>> /\ req'[r].kind = "stop"
    BY <1>0, <1>14 DEF RecoverStop, Launch, SendStop, Send, filesVars
  <2>2. new \in Process
    BY <1>0, <2>1, JournaledTyped DEF Process, Steps, Times
  <2>3. ~Unstarted(drafts[d].timerId)
    BY <2>1 DEF LinkInv, StopsRan, Ran, Unstarted
  <2>4. cli'[r] = new
    BY <1>0, <2>1
  <2>5. /\ new.at = "recovering" /\ new.timerId = drafts[d].timerId /\ new.fresh = FALSE
        /\ new # None /\ new.timerId \in Operations
    BY <2>2 DEF Process
  <2> HIDE DEF new
  <2> QED
    BY <1>d, <1>14, <2>1, <2>3, <2>4, <2>5 DEF Client
<1>15. ASSUME NEW r \in Requests, PostStart(r)
      PROVE  RememberedInv'
  <2> DEFINE o == cli[r].timerId
  <2>1. /\ cli[r] # None /\ cli[r].at = "post" /\ Goes(r, "posted") /\ "posted" \in Steps
        /\ pc'[r] = "sent" /\ reply'[r] = None /\ req'[r].timerId = o
        /\ UNCHANGED <<sessions, pendingStart, started>>
        /\ o \in Operations /\ started[o] # "unknown"
    BY <1>0, <1>a, <1>15
    DEF PostStart, SendStart, RepeatStart, Send, At, Steps, filesVars, IdsKnown, IdKnown
  <2>2. \A p \in Operations : issued[p] # None => issued'[p] # None
    BY <1>0, <1>15 DEF PostStart, SendStart, RepeatStart
  <2>3. /\ cli'[r] # None /\ cli'[r].at = "posted" /\ cli'[r].timerId = o
        /\ cli'[r].fresh = cli[r].fresh
    BY <1>0, <2>1, Going
  <2>4. \A p \in Operations : MayStart(r, p)' => MayStart(r, p)
    BY <2>1, <2>3 DEF MayStart, At
  <2>5. \A p \in Operations : Unstarted(p) => Unstarted(p)'
    BY <2>1 DEF Unstarted
  <2>6. FirstTry(r)' => FirstTry(r) /\ cli'[r].timerId = cli[r].timerId
    BY <2>1, <2>3 DEF FirstTry
  <2>7. FirstTry(r)' => Unstarted(o)
    BY <1>0, <2>1, <2>6 DEF FirstAlone, NotYet
  <2>8. IdKnown(r)' /\ NotYet(r)' /\ Clears(r)'
    BY <2>1, <2>3, <2>5, <2>7 DEF IdKnown, NotYet, Clears, At
  <2>9. Client(r)
    BY <1>15 DEF Client
  <2> QED
    BY <1>0, <1>b, <2>1, <2>2, <2>4, <2>5, <2>6, <2>8, <2>9, OthersAlone, QuietRemembered
<1>16. ASSUME NEW r \in Requests, Refused(r)
      PROVE  RememberedInv'
  <2>1. /\ cli[r] # None /\ cli[r].at = "posted" /\ Goes(r, "clear") /\ "clear" \in Steps
        /\ pc[r] = "idle"
        /\ reply[r] # None => reply[r].outcome = "consumed"
        /\ reply[r] = None => cli[r].fresh
        /\ UNCHANGED <<pc, req, reply, issued, sessions, pendingStart, started>>
    BY <1>16 DEF Refused, Resolves, At, Steps, vars, filesVars
  <2>2. /\ cli'[r] # None /\ cli'[r].at = "clear" /\ cli'[r].timerId = cli[r].timerId
        /\ cli'[r].fresh = cli[r].fresh
    BY <1>0, <2>1, Going
  <2>3. \A o \in Operations : /\ MayStart(r, o)' => MayStart(r, o)
                              /\ Unstarted(o)' <=> Unstarted(o)
                              /\ Finished(o)' <=> Finished(o)
    BY <2>1, <2>2 DEF MayStart, At, Unstarted, Finished
  <2>4. FirstTry(r)' => FirstTry(r) /\ cli'[r].timerId = cli[r].timerId
    BY <2>1, <2>2 DEF FirstTry
  <2>5. IdKnown(r)'
    BY <1>0, <2>1, <2>2 DEF IdsKnown, IdKnown
  <2>6. NotYet(r)'
    BY <1>0, <1>a, <2>1, <2>2, <2>3, <2>4 DEF FirstAlone, NotYet
  <2>7. Clears(r)'
    <3>1. cli[r].timerId \in Operations
      BY <1>a, <2>1
    <3>2. reply[r] # None => Finished(cli[r].timerId)
      BY <1>0, <2>1 DEF ReservedIsKept, Clears, At
    <3>3. \A o \in Operations : o = cli[r].timerId /\ reply[r] # None => Finished(o)'
      BY <2>3, <3>2
    <3> QED
      BY <2>1, <2>2, <3>1, <3>3 DEF Clears, At
  <2>8. Client(r)
    BY <1>16 DEF Client
  <2> QED
    BY <1>0, <2>1, <2>3, <2>4, <2>5, <2>6, <2>7, <2>8, OthersAlone, QuietRemembered
<1>17. ASSUME NEW r \in Requests, SaveActive(r)
      PROVE  RememberedInv'
  <2> DEFINE o == cli[r].timerId
  <2>1. /\ cli[r] # None /\ cli[r].at = "save" /\ Goes(r, "clear") /\ "clear" \in Steps
        /\ o \in Operations
        /\ started' = [started EXCEPT ![o] = IF @ = "unknown" THEN @ ELSE "settled"]
        /\ UNCHANGED <<pc, req, reply, issued, sessions, pendingStart>>
    BY <1>a, <1>17 DEF SaveActive, At, Steps, vars
  <2>2. cli'[r] # None /\ cli'[r].at = "clear" /\ cli'[r].timerId = o
    BY <1>0, <2>1, Going
  <2>3. /\ started'[o] = IF started[o] = "unknown" THEN "unknown" ELSE "settled"
        /\ \A p \in Operations \ {o} : started'[p] = started[p]
    BY <1>0, <2>1
  <2>4. \A p \in Operations : /\ MayStart(r, p)' => MayStart(r, p)
                              /\ Unstarted(p)' <=> Unstarted(p)
    BY <2>1, <2>2 DEF MayStart, At, Unstarted
  <2>5. IdKnown(r)'
    BY <1>0, <2>1, <2>2, <2>3 DEF IdsKnown, IdKnown
  <2>6. NotYet(r)' /\ Clears(r)' /\ ~FirstTry(r)'
    BY <2>2, <2>3 DEF NotYet, FirstTry, Clears, At
  <2>7. Client(r)
    BY <1>17 DEF Client
  <2> QED
    BY <1>0, <1>b, <2>1, <2>3, <2>4, <2>5, <2>6, <2>7, OthersAlone, QuietRemembered
<1>18. ASSUME NEW r \in Requests, ClearPending(r)
      PROVE  RememberedInv'
  <2> DEFINE o == cli[r].timerId
  <2>1. /\ cli[r] # None /\ cli[r].at = "clear" /\ cli' = Ended(r) /\ o \in Operations
        /\ pendingStart' = IF pendingStart = o THEN None ELSE pendingStart
        /\ started' = [started EXCEPT ![o] = IF @ = "reserved" /\ reply[r] = None
                                            THEN "refused" ELSE @]
        /\ UNCHANGED <<pc, req, reply, issued, sessions>>
    BY <1>a, <1>18 DEF ClearPending, At, vars
  <2>2. /\ started'[o] = IF started[o] = "reserved" /\ reply[r] = None THEN "refused"
                                                                      ELSE started[o]
        /\ \A p \in Operations \ {o} : started'[p] = started[p]
    BY <1>0, <2>1
  <2>3. /\ \A q \in Requests \ {r} : cli'[q] = cli[q]
        /\ cli'[r] # None => cli'[r].at = "gone" /\ cli'[r].timerId = o
    BY <1>0, <2>1, Ending
  <2>4. \A q \in Requests, p \in Operations : MayStart(q, p)' => MayStart(q, p)
    BY <2>1, <2>3 DEF MayStart, At
  <2>5. \A p \in Operations : (Unstarted(p)' <=> Unstarted(p)) /\ (Finished(p)' <=> Finished(p))
    BY <2>1 DEF Unstarted, Finished
  <2>6. \A q \in Requests : FirstTry(q)' => q # r /\ FirstTry(q) /\ cli'[q] = cli[q]
    BY <1>a, <2>2, <2>3 DEF FirstTry
  <2>7. started[o] = "reserved" =>
            /\ pc[r] = "idle"
            /\ reply[r] = None => FirstTry(r) /\ Unstarted(o)
            /\ reply[r] # None => Finished(o)
    BY <1>0, <2>1 DEF ReservedIsKept, Clears, At, FirstAlone, NotYet, FirstTry
  <2>8. IdsKnown'
    BY <1>0, <1>a, <2>1, <2>2, <2>3 DEF IdsKnown, IdKnown
  <2>9. ASSUME NEW q \in Requests
        PROVE  NotYet(q)' /\ (FirstTry(q)' => \A p \in Requests \ {q} : ~MayStart(p, cli[q].timerId)')
    <3>1. CASE ~FirstTry(q)'
      BY <3>1 DEF NotYet
    <3>2. CASE FirstTry(q)'
      <4>1. FirstTry(q) /\ cli'[q] = cli[q] /\ cli[q].timerId \in Operations
        BY <1>a, <2>6, <3>2 DEF FirstTry
      <4>2. \A p \in Requests \ {q} : ~MayStart(p, cli[q].timerId)
        BY <1>0, <4>1 DEF FirstAlone
      <4>3. \A p \in Requests \ {q}, x \in Operations : x = cli[q].timerId => ~MayStart(p, x)'
        BY <2>4, <4>2
      <4>4. NotYet(q)'
        BY <1>0, <2>1, <2>5, <4>1 DEF FirstAlone, NotYet
      <4> QED
        BY <4>1, <4>3, <4>4
    <3> QED
      BY <3>1, <3>2
  <2>10. ReservedIsKept'
    <3>1. \A p \in Operations : started'[p] = "reserved" => pendingStart' = p \/ Finished(p)'
      BY <1>0, <2>1, <2>2, <2>5, <2>7 DEF ReservedIsKept
    <3>2. \A q \in Requests : Clears(q)'
      BY <1>0, <1>a, <2>1, <2>2, <2>3, <2>5 DEF ReservedIsKept, Clears, At
    <3> QED
      BY <3>1, <3>2 DEF ReservedIsKept
  <2>11. RefusedNeverStarts'
    <3>1. ASSUME NEW p \in Operations, started'[p] = "refused"
          PROVE  Unstarted(p)' /\ pendingStart' # p /\ \A q \in Requests : ~MayStart(q, p)'
      <4>1. CASE started[p] = "refused"
        BY <1>0, <2>1, <2>4, <2>5, <4>1 DEF RefusedNeverStarts
      <4>2. CASE started[p] # "refused"
        <5>1. p = o /\ started[o] = "reserved" /\ reply[r] = None
          BY <2>2, <3>1, <4>2
        <5>2. \A q \in Requests \ {r} : ~MayStart(q, o)
          BY <1>0, <2>7, <5>1 DEF FirstAlone
        <5>3. ~MayStart(r, o)
          BY <2>1, <2>7, <5>1 DEF MayStart, At
        <5>4. \A q \in Requests, x \in Operations : x = o => ~MayStart(q, x)'
          BY <2>4, <5>2, <5>3
        <5> QED
          BY <2>1, <2>5, <2>7, <5>1, <5>4
      <4> QED
        BY <4>1, <4>2
    <3> QED
      BY <3>1 DEF RefusedNeverStarts
  <2> QED
    BY <2>8, <2>9, <2>10, <2>11 DEF RememberedInv, FirstAlone
<1>19. ASSUME NEW r \in Requests, Serve(r)
      PROVE  RememberedInv'
  <2>1. /\ Progress(r) /\ pc[r] # "idle" /\ reply[r] = None
        /\ UNCHANGED <<issued, pendingStart, started>>
        /\ \A q \in Requests \ {r} : pc'[q] = pc[q]
    BY <1>0, <1>19, ServeIsProgress, SlotStep DEF Serve, Respond, Break, filesVars
  <2>2. \/ cli'[r] = None
        \/ cli'[r] = cli[r] /\ (At(r, "posted") => Respond(r))
        \/ /\ cli[r] # None /\ cli[r].at = "posted"
           /\ cli'[r] # None /\ cli'[r].at = "unheard" /\ cli'[r].timerId = cli[r].timerId
           /\ cli'[r].fresh = cli[r].fresh
    <3>1. \/ cli'[r] = None
          \/ cli'[r] = cli[r] /\ (At(r, "posted") => Respond(r))
          \/ At(r, "posted") /\ Goes(r, "unheard") /\ "unheard" \in Steps
      BY <1>0, <1>19 DEF Serve, Respond, Break, Released, Goes, Steps
    <3> QED
      BY <1>0, <3>1, Going DEF At
  <2>3. cli[r] # None => cli[r].at # "post" /\ req[r].timerId = cli[r].timerId
    BY <1>0, <2>1 DEF SlotsMatch
  <2>4. \A o \in Operations : MayStart(r, o)' => MayStart(r, o)
    BY <2>1, <2>2, <2>3, SlotStep DEF MayStart, At
  <2>5. \/ \A o \in Operations : Unstarted(o) => Unstarted(o)'
        \/ /\ StartLands(r)
           /\ reply'[r] # None \/ pc[r] = "lost"
           /\ \A o \in Operations \ {req[r].timerId} : Unstarted(o) => Unstarted(o)'
    BY <1>0, <2>1, OnlyStartsStart, SlotStep
  <2>6. \A o \in Operations : Unstarted(o) => Unstarted(o)' \/ MayStart(r, o)
    <3>1. StartLands(r) => MayStart(r, req[r].timerId)
      BY <2>1 DEF StartLands, MayStart
    <3> QED
      BY <2>5, <3>1
  <2>7. FirstTry(r)' => FirstTry(r) /\ cli'[r].timerId = cli[r].timerId
    BY <2>1, <2>2 DEF FirstTry
  <2>8. IdKnown(r)'
    BY <1>0, <2>1, <2>2 DEF IdsKnown, IdKnown
  <2>9. cli'[r] # None /\ cli'[r].at = "clear" => started[cli[r].timerId] # "reserved"
    BY <1>0, <2>1, <2>2 DEF ReservedIsKept, Clears, At
  <2>10. NotYet(r)'
    <3>1. CASE ~FirstTry(r)' \/ cli'[r].at # "posted"
      BY <2>1, <2>2, <2>3, <2>7, <2>9, <3>1 DEF NotYet, FirstTry
    <3>2. CASE FirstTry(r)' /\ cli'[r].at = "posted"
      <4>1. cli'[r] = cli[r] /\ Respond(r) /\ FirstTry(r) /\ cli[r].timerId \in Operations
        BY <1>a, <2>2, <2>7, <3>2 DEF FirstTry, At
      <4>2. pc[r] # "lost" /\ Unstarted(cli[r].timerId)
        BY <1>0, <2>1, <3>2, <4>1 DEF FirstAlone, NotYet
      <4>3. pc'[r] # "lost"
        BY <1>0, <4>1
        DEF Respond, ReadForStart, CasStart, Classify, ReadForLegacyStop, ReadForStop, CasStop,
            Answer, Proceed
      <4>4. \A o \in Operations : o = cli[r].timerId /\ reply'[r] = None => Unstarted(o)'
        BY <2>5, <4>2
      <4> QED
        BY <3>2, <4>1, <4>3, <4>4 DEF NotYet
    <3> QED
      BY <3>1, <3>2
  <2>11. Clears(r)'
    <3>1. ASSUME cli'[r] # None, cli'[r].at = "posted", reply'[r] # None,
                 reply'[r].outcome = "consumed"
          PROVE  cli'[r] = cli[r] /\ \A o \in Operations : o = cli[r].timerId => Finished(o)'
      <4>1. cli'[r] = cli[r]
        BY <2>2, <3>1
      <4>2. Finished(req[r].timerId)
        BY <2>1, <3>1, ConsumedIsFinished
      <4> QED
        BY <1>b, <2>3, <3>1, <4>1, <4>2
    <3>2. cli'[r] # None /\ cli'[r].at = "clear" => started'[cli'[r].timerId] # "reserved"
      BY <2>1, <2>2, <2>9
    <3>3. cli'[r] # None => cli'[r].timerId \in Operations
      BY <1>a, <2>2
    <3> QED
      BY <3>1, <3>2, <3>3 DEF Clears, At
  <2> QED
    BY <1>0, <1>b, <1>19, <2>1, <2>4, <2>6, <2>7, <2>8, <2>10, <2>11, OthersAlone,
       QuietRemembered
<1>20. ASSUME NEW r \in Requests, Device(r)
      PROVE  RememberedInv'
  <2>1. cli'[r] = None /\ UNCHANGED <<sessions, pendingStart, started>>
    BY <1>20 DEF Device, Arrive, SendStart, RepeatStart, SendStop, SendLegacyStop, Send, clientVars,
                filesVars
  <2>2. \A o \in Operations : issued[o] # None => issued'[o] # None
    BY <1>0, <1>20 DEF Device, Arrive, SendStart, RepeatStart, SendStop, SendLegacyStop
  <2>3. \A o \in Operations : MayStart(r, o)' => started[o] = "unknown"
    BY <1>20, <2>1 DEF Device, MayStart, At
  <2>4. \A o \in Operations : Unstarted(o) => Unstarted(o)'
    BY <2>1 DEF Unstarted
  <2>5. IdKnown(r)' /\ NotYet(r)' /\ Clears(r)' /\ ~FirstTry(r)'
    BY <2>1 DEF IdKnown, NotYet, Clears, At, FirstTry
  <2>6. \A q \in Requests : FirstTry(q)' => started[cli'[q].timerId] # "unknown"
    BY <2>1 DEF FirstTry
  <2> QED
    BY <1>0, <1>b, <1>20, <2>1, <2>2, <2>3, <2>4, <2>5, <2>6, OthersAlone, QuietRemembered
<1>21. ASSUME UNCHANGED <<sessions, pc, req, reply, issued, clientVars>>
      PROVE  RememberedInv'
  BY <1>0, <1>21
  DEF clientVars, filesVars, RememberedInv, IdsKnown, IdKnown, FirstAlone, NotYet, FirstTry,
      ReservedIsKept, Clears, RefusedNeverStarts, MayStart, At, Unstarted, Finished
<1> QED
  BY <1>1, <1>2, <1>3, <1>4, <1>5, <1>6, <1>7, <1>8, <1>9, <1>10, <1>11, <1>12, <1>13, <1>14, <1>15, <1>16, <1>17, <1>18, <1>19, <1>20, <1>21
  DEF CliNext, Client, Tick, cliVars, vars

\* The grace period outlasts the clocks' errors, so that an operation starts one timer.
LEMMA OnceInvariance == ASSUME GraceCovers PROVE CliSpec => []OnceInv
<1>1. CliInit => OnceInv
  BY InitOnceInv DEF CliInit
<1>2. IInv /\ LinkInv /\ OnceInv /\ [CliNext]_cliVars => OnceInv'
  BY GraceCovers, StepTimer, StepOnceInv
<1> QED
  BY <1>1, <1>2, CliInvariance, PTL DEF CliSpec

\* A timer that runs under an operation the client reserved is in its pending-start file
\* until the active-timer file names it, whoever was killed and however late the start
\* took effect; a start whose first attempt was refused, and which nobody replayed
\* meanwhile, never runs.
THEOREM StartsRemembered == ASSUME GraceCovers PROVE CliSpec => []StartIsRemembered
<1> USE TimerAssumption
<1>1. CliInit => RememberedInv
  BY CliAssumption
  DEF CliInit, RememberedInv, IdsKnown, IdKnown, FirstAlone, NotYet, FirstTry, ReservedIsKept,
      Clears, RefusedNeverStarts, At
<1>2. IInv /\ LinkInv /\ OnceInv /\ RememberedInv /\ [CliNext]_cliVars => RememberedInv'
  BY GraceCovers, StepRemembered
<1>3. IInv /\ OnceInv /\ RememberedInv => StartIsRemembered
  <2> SUFFICES ASSUME IInv, OnceInv, RememberedInv, activeTimer, profile.timerId # None
               PROVE  /\ started[profile.timerId] = "reserved" => pendingStart = profile.timerId
                      /\ started[profile.timerId] # "refused"
    BY DEF StartIsRemembered
  <2> DEFINE o == profile.timerId
  <2>1. o \in Operations /\ Running \in sessions /\ Running.timerId = o /\ Running.stoppedAt = None
    BY DEF IInv, TypeOK, Profile, TimerIds, SessionsMatch, Running
  <2>2. ~Unstarted(o)
    BY <2>1 DEF Unstarted
  <2>3. ~Finished(o)
    BY <2>1 DEF Finished, OnceInv, StartsOnce
  <2> QED
    BY <2>1, <2>2, <2>3 DEF RememberedInv, ReservedIsKept, RefusedNeverStarts
<1> QED
  BY <1>1, <1>2, <1>3, CliInvariance, OnceInvariance, PTL DEF CliSpec
==============================================================================
