------------------------ MODULE TimerTransitionsProofs ------------------------
(***************************************************************************)
(* Proofs about TimerTransitions.  IInv says what a pending request may    *)
(* rely on and how the timers that ran, the profile and the receipt hang   *)
(* together; it needs nothing of the clock.  OnceInv adds the argument     *)
(* about time: the history remembers an operation for as long as a repeat  *)
(* of it may still be decided, which is where GraceCovers is used.         *)
(***************************************************************************)
EXTENDS TimerTransitions, TLAPS

Kinds ==
    \A r \in Requests :
        /\ pc[r] \in {"starting", "classify"} => req[r].kind = "start"
        /\ pc[r] = "stopping" => req[r].kind = "stop"
        /\ pc[r] = "lost" => req[r].kind \in {"start", "stop"}
        /\ pc[r] \in {"starting", "stopping", "classify", "lost"} => req[r].instant \in Int
        /\ pc[r] # "idle" /\ req[r].kind = "start" => req[r].timerId \in Operations
        /\ pc[r] # "idle" => reply[r] = None

\* A pending write was decided on a profile no newer than today's.
SeenBefore ==
    \A r \in Requests :
        pc[r] \in {"starting", "stopping", "lost"} =>
            /\ seen[r].timerRevision # MaxRevision
            /\ Number(seen[r].timerRevision) <= Number(profile.timerRevision)
            /\ req[r].kind = "start" => seen[r].timer = None
            /\ req[r].kind = "stop" => /\ seen[r].timer # None
                                       /\ seen[r].timerId = req[r].timerId
                                       /\ seen[r].timerRevision = req[r].revision

SessionsMatch ==
    /\ \A s \in sessions : Number(s.revision) <= Number(profile.timerRevision)
    /\ activeTimer => Running \in sessions
    /\ \A s \in sessions : s.stoppedAt = None => activeTimer /\ s = Running
    /\ \A e \in profile.timerStartHistory : \E s \in sessions : s.timerId = e.operationId
    /\ profile.timerStopReceipt # None => profile.timerStopReceipt \in sessions

IInv == TypeOK /\ Kinds /\ SeenBefore /\ SessionsMatch /\ RepliesTrue /\ ReceiptIsOfLastTimer

LEMMA InitIInv == Init => IInv
  BY TimerAssumption
  DEF Init, IInv, TypeOK, Kinds, SeenBefore, SessionsMatch, RepliesTrue, ReceiptIsOfLastTimer,
      Profile, Session, Receipt, Reply, Pcs, Times, TimerIds, Revisions, activeTimer, Running,
      Number, Entry

------------------------------------------------------------------------------
\* What a landing start does to the timer and to the timers that ran.
LEMMA WriteStartSafe ==
    ASSUME IInv, NEW r \in Requests,
           pc[r] \in {"starting", "lost"}, req[r].kind = "start",
           StartSnapshot(r), WriteStart(r)
    PROVE  /\ profile' \in Profile /\ sessions' \subseteq Session
           /\ SessionsMatch' /\ ReceiptIsOfLastTimer'
           /\ Running' = Started(r) /\ Started(r) \in Session
           /\ sessions' = sessions \union {Started(r)}
           /\ Number(profile'.timerRevision) = Number(profile.timerRevision) + 1
<1> USE TimerAssumption
<1>1. /\ req[r] \in Request /\ req[r].timerId \in Operations /\ req[r].instant \in Int
      /\ seen[r] \in Profile /\ seen[r].timer = None
      /\ seen[r].timerRevision \in Revisions \ {MaxRevision}
  BY DEF IInv, TypeOK, Kinds, SeenBefore, Profile
<1>2. /\ profile \in Profile /\ profile.timer = None
      /\ profile.timerRevision = seen[r].timerRevision
      /\ profile.timerStartHistory = seen[r].timerStartHistory
      /\ sessions \subseteq Session
  BY <1>1 DEF StartSnapshot, Snapshot, IInv, TypeOK
<1>3. /\ Number(profile.timerRevision) \in 0..(MaxRevision - 1)
      /\ Number(profile.timerRevision) + 1 \in Revisions
      /\ Number(Number(profile.timerRevision) + 1) = Number(profile.timerRevision) + 1
  BY <1>1, <1>2 DEF Number, Revisions
<1> DEFINE entry == [operationId |-> req[r].timerId,
                     expiresAt |-> req[r].instant + Retention + Grace]
           retained == retainedTimerStartHistory(seen[r].timerStartHistory, req[r].instant)
<1>4. /\ entry \in Entry /\ retained \subseteq profile.timerStartHistory
      /\ profile.timerStartHistory \subseteq Entry
  BY <1>1, <1>2 DEF Entry, retainedTimerStartHistory, Profile
<1>5. profile' = [profile EXCEPT !.timer = req[r].instant,
                                 !.timerId = req[r].timerId,
                                 !.timerRevision = Number(profile.timerRevision) + 1,
                                 !.timerStartHistory = retained \union {entry}]
  BY DEF WriteStart
<1> HIDE DEF entry, retained
<1>6. /\ profile' \in Profile
      /\ profile'.timer = req[r].instant /\ profile'.timerId = req[r].timerId
      /\ profile'.timerRevision = Number(profile.timerRevision) + 1
      /\ profile'.timerStartHistory = retained \union {entry}
      /\ profile'.timerStopReceipt = profile.timerStopReceipt
  BY <1>1, <1>2, <1>3, <1>4, <1>5 DEF Profile, Times, TimerIds
<1>7. Running' = Started(r)
  BY <1>2, <1>6 DEF Running, Started
<1>8. Started(r) \in Session
  BY <1>1, <1>2, <1>3 DEF Started, Session, Times, TimerIds
<1>9. sessions' = sessions \union {Started(r)}
  BY <1>7 DEF WriteStart
<1>10. activeTimer'
  BY <1>1, <1>6 DEF activeTimer
<1>11. /\ Number(profile'.timerRevision) = Number(profile.timerRevision) + 1
       /\ Number(Started(r).revision) = Number(profile.timerRevision) + 1
       /\ Started(r).timerId = req[r].timerId
  BY <1>2, <1>3, <1>6 DEF Started
<1>12. SessionsMatch'
  <2>1. \A s \in sessions : Number(s.revision) <= Number(profile.timerRevision)
                            /\ Number(s.revision) \in Int
    BY <1>2 DEF IInv, SessionsMatch, Session, Number, Revisions
  <2>2. \A s \in sessions' : Number(s.revision) <= Number(profile'.timerRevision)
    BY <2>1, <1>3, <1>9, <1>11
  <2>3. \A s \in sessions' : s.stoppedAt = None => s = Running'
    BY <1>2, <1>7, <1>9 DEF IInv, SessionsMatch, activeTimer
  <2>4. \A e \in profile'.timerStartHistory : \E s \in sessions' : s.timerId = e.operationId
    <3>1. \A e \in retained : \E s \in sessions : s.timerId = e.operationId
      BY <1>4 DEF IInv, SessionsMatch
    <3>2. entry.operationId = Started(r).timerId
      BY <1>11 DEF entry
    <3> QED
      BY <3>1, <3>2, <1>6, <1>9
  <2>5. profile'.timerStopReceipt # None => profile'.timerStopReceipt \in sessions'
    BY <1>6, <1>9 DEF IInv, SessionsMatch
  <2> QED
    BY <2>2, <2>3, <2>4, <2>5, <1>7, <1>9, <1>10 DEF SessionsMatch
<1> QED
  BY <1>6, <1>7, <1>8, <1>9, <1>10, <1>11, <1>12, <1>2 DEF ReceiptIsOfLastTimer

\* What a landing stop does.
LEMMA WriteStopSafe ==
    ASSUME IInv, NEW r \in Requests,
           pc[r] \in {"stopping", "lost"}, req[r].kind = "stop",
           Snapshot(r), WriteStop(r)
    PROVE  /\ profile' \in Profile /\ sessions' \subseteq Session
           /\ SessionsMatch' /\ ReceiptIsOfLastTimer'
           /\ Running \in sessions /\ Running.stoppedAt = None
           /\ Stopped(r) \in Receipt /\ Stopped(r) = [Running EXCEPT !.stoppedAt = req[r].instant]
           /\ sessions' = (sessions \ {Running}) \union {Stopped(r)}
           /\ Number(profile'.timerRevision) = Number(profile.timerRevision) + 1
           /\ profile'.timerStartHistory = profile.timerStartHistory
<1> USE TimerAssumption
<1>1. /\ req[r] \in Request /\ req[r].instant \in Int
      /\ seen[r] \in Profile /\ seen[r].timer # None
      /\ seen[r].timerRevision \in Revisions \ {MaxRevision}
  BY DEF IInv, TypeOK, Kinds, SeenBefore, Profile
<1>2. /\ profile \in Profile /\ profile.timer \in Int
      /\ profile.timer = seen[r].timer /\ profile.timerId = seen[r].timerId
      /\ profile.timerRevision = seen[r].timerRevision
      /\ sessions \subseteq Session
  BY <1>1 DEF Snapshot, IInv, TypeOK, Profile, Times
<1>3. /\ Number(profile.timerRevision) \in 0..(MaxRevision - 1)
      /\ Number(profile.timerRevision) + 1 \in Revisions
      /\ Number(Number(profile.timerRevision) + 1) = Number(profile.timerRevision) + 1
  BY <1>1, <1>2 DEF Number, Revisions
<1>4. /\ activeTimer /\ Running \in sessions /\ Running.stoppedAt = None
  BY <1>2 DEF activeTimer, Running, IInv, SessionsMatch
<1>5. Stopped(r) = [Running EXCEPT !.stoppedAt = req[r].instant]
  BY <1>2 DEF Stopped, Running
<1>6. /\ Stopped(r) \in Receipt /\ Stopped(r) \in Session /\ Stopped(r).stoppedAt = req[r].instant
      /\ Stopped(r).timerId = Running.timerId /\ Stopped(r).revision = profile.timerRevision
  BY <1>1, <1>2 DEF Stopped, Running, Receipt, Session, Profile, Times
<1>7. /\ profile' \in Profile
      /\ profile'.timer = None
      /\ profile'.timerRevision = Number(profile.timerRevision) + 1
      /\ profile'.timerStartHistory = profile.timerStartHistory
      /\ profile'.timerStopReceipt = Stopped(r)
  BY <1>2, <1>3, <1>6 DEF WriteStop, Profile, Times, TimerIds
<1>8. sessions' = (sessions \ {Running}) \union {Stopped(r)}
  BY <1>5 DEF WriteStop
<1>9. Number(profile'.timerRevision) = Number(profile.timerRevision) + 1
  BY <1>3, <1>7
<1>10. \A s \in sessions' : /\ Number(s.revision) <= Number(profile.timerRevision)
                            /\ Number(s.revision) \in Int /\ s.stoppedAt # None
  <2>1. \A s \in sessions : /\ Number(s.revision) <= Number(profile.timerRevision)
                            /\ Number(s.revision) \in Int
                            /\ s # Running => s.stoppedAt # None
    BY <1>2 DEF IInv, SessionsMatch, Session, Number, Revisions
  <2>2. /\ Number(Stopped(r).revision) = Number(profile.timerRevision)
        /\ Number(Stopped(r).revision) \in Int /\ Stopped(r).stoppedAt # None
    BY <1>1, <1>3, <1>6
  <2> QED
    BY <2>1, <2>2, <1>3, <1>8
<1>11. \A e \in profile'.timerStartHistory : \E s \in sessions' : s.timerId = e.operationId
  BY <1>6, <1>7, <1>8 DEF IInv, SessionsMatch
<1>12. SessionsMatch'
  BY <1>3, <1>7, <1>8, <1>9, <1>10, <1>11 DEF SessionsMatch, activeTimer
<1>13. ReceiptIsOfLastTimer'
  BY <1>6, <1>7, <1>8, <1>10 DEF ReceiptIsOfLastTimer
<1> QED
  BY <1>4, <1>5, <1>6, <1>7, <1>8, <1>9, <1>12, <1>13, <1>2

------------------------------------------------------------------------------
\* What was true of the timers that ran stays true when one starts or stops.
LEMMA HappenedStays ==
    ASSUME NEW message \in Reply, message # None,
           NEW before, NEW after, NEW running, HasHappened(message, before),
           \/ before \subseteq after
           \/ \E stopped \in Receipt :
                  /\ \A field \in {"timerId", "revision", "startTime"} :
                         stopped[field] = running[field]
                  /\ after = (before \ {running}) \union {stopped}
                  /\ running.stoppedAt = None
    PROVE  HasHappened(message, after)
<1> USE TimerAssumption
<1>0. \A s \in before : \E t \in after :
          t.timerId = s.timerId /\ t.revision = s.revision /\ t.startTime = s.startTime
  BY DEF Receipt
<1>1. CASE message.outcome = "running"
  BY <1>0, <1>1 DEF HasHappened
<1>2. CASE message.outcome = "stopped"
  BY <1>2 DEF HasHappened, Reply, Receipt
<1>3. CASE message.outcome = "consumed"
  BY <1>0, <1>3 DEF HasHappened
<1> QED
  BY <1>1, <1>2, <1>3 DEF Reply

\* One step of a request that writes nothing: it goes on or is answered.
LEMMA QuietStep ==
    ASSUME IInv, UNCHANGED <<profile, sessions>>,
           TypeOK', Kinds', SeenBefore',
           \A r \in Requests : reply'[r] \in {reply[r], None} \/ HasHappened(reply'[r], sessions)
    PROVE  IInv'
<1> USE DEF IInv
<1>1. SessionsMatch' /\ ReceiptIsOfLastTimer'
  BY DEF SessionsMatch, ReceiptIsOfLastTimer, activeTimer, Running
<1>2. RepliesTrue'
  BY HappenedStays DEF RepliesTrue, HasHappened
<1> QED
  BY <1>1, <1>2

LEMMA StepIInv == IInv /\ [Next]_vars => IInv'
<1> SUFFICES ASSUME IInv, [Next]_vars
             PROVE  IInv'
  OBVIOUS
<1> USE TimerAssumption
<1>1. ASSUME Tick
      PROVE  IInv'
  <2>1. TypeOK' /\ Kinds' /\ SeenBefore'
    BY <1>1 DEF Tick, IInv, TypeOK, Kinds, SeenBefore
  <2> QED
    BY <1>1, <2>1, QuietStep DEF Tick
<1>2. ASSUME NEW r \in Requests, Arrive(r)
      PROVE  IInv'
  <2>1. PICK kind \in {"start", "stop", "legacyStop"}, timerId \in TimerIds,
             revision \in Revisions, instant \in Times :
          /\ Send(r, kind, timerId, revision, instant)
          /\ kind = "start" => timerId \in Operations
    <3>1. ASSUME NEW o \in Operations,
                 NEW timestamp \in (clock - Skew)..(clock + Skew) \union {None},
                 SendStart(r, o, timestamp)
          PROVE  Send(r, "start", o, None, timestamp) /\ timestamp \in Times
      BY <3>1 DEF SendStart, Times, IInv, TypeOK
    <3>2. ASSUME NEW o \in Operations, RepeatStart(r, o)
          PROVE  /\ Send(r, "start", o, None, issued[o].timestamp)
                 /\ issued[o].timestamp \in Times
      BY <3>2 DEF RepeatStart, IInv, TypeOK
    <3>3. ASSUME NEW session \in sessions, SendStop(r, session)
          PROVE  /\ Send(r, "stop", session.timerId, session.revision, None)
                 /\ session.timerId \in TimerIds /\ session.revision \in Revisions
      BY <3>3 DEF SendStop, IInv, TypeOK, Session
    <3>4. ASSUME SendLegacyStop(r)
          PROVE  Send(r, "legacyStop", None, None, None)
      BY <3>4 DEF SendLegacyStop
    <3>5. None \in Times /\ None \in Revisions /\ None \in TimerIds
          /\ Operations \subseteq TimerIds
      BY DEF Times, Revisions, TimerIds
    <3> QED
      BY <1>2, <3>1, <3>2, <3>3, <3>4, <3>5 DEF Arrive
  <2>2. issued' \in [Operations -> [at: Nat, timestamp: Times] \union {None}]
    BY <1>2 DEF Arrive, SendStart, RepeatStart, SendStop, SendLegacyStop, IInv, TypeOK, Times
  <2>3. /\ pc' = [pc EXCEPT ![r] = "sent"] /\ UNCHANGED <<clock, profile, seen, sessions>>
        /\ reply' = [reply EXCEPT ![r] = None]
        /\ req' = [req EXCEPT ![r] = [kind |-> kind, timerId |-> timerId,
                                      revision |-> revision, instant |-> instant,
                                      sentAt |-> clock]]
    BY <2>1 DEF Send
  <2>4. [kind |-> kind, timerId |-> timerId, revision |-> revision, instant |-> instant,
         sentAt |-> clock] \in Request
    BY DEF Request, IInv, TypeOK
  <2>5. TypeOK'
    BY <2>2, <2>3, <2>4 DEF IInv, TypeOK, Pcs, Reply
  <2>6. Kinds' /\ SeenBefore'
    BY <2>1, <2>3 DEF IInv, TypeOK, Kinds, SeenBefore
  <2> QED
    BY <2>3, <2>5, <2>6, QuietStep DEF IInv, TypeOK
<1>6. ASSUME NEW r \in Requests, NEW message \in Reply, pc[r] # "idle", Answer(r, message),
             message = None \/ HasHappened(message, sessions),
             UNCHANGED <<clock, issued, profile, sessions>>
      PROVE  IInv'
  <2>1. TypeOK' /\ Kinds' /\ SeenBefore'
    BY <1>6 DEF Answer, IInv, TypeOK, Kinds, SeenBefore, Pcs
  <2>2. \A q \in Requests : reply'[q] \in {reply[q], None} \/ HasHappened(reply'[q], sessions)
    BY <1>6 DEF Answer, IInv, TypeOK
  <2> QED
    BY <1>6, <2>1, <2>2, QuietStep
<1>7. Conflict \in Reply /\ Conflict = None /\ None \in Reply
  BY DEF Conflict, Reply
<1>8. activeTimer => Existing \in Reply /\ HasHappened(Existing, sessions)
  <2>1. activeTimer => Running \in sessions /\ Running \in Session
    BY DEF IInv, SessionsMatch, TypeOK
  <2> QED
    BY <2>1 DEF Existing, Reply, HasHappened
<1>9. ASSUME NEW r \in Requests, NEW instant, pc[r] # "idle", req[r].kind = "start",
             IsConsumed(retainedTimerStartHistory(profile.timerStartHistory, instant),
                        req[r].timerId)
      PROVE  Consumed(r) \in Reply /\ HasHappened(Consumed(r), sessions)
  <2>1. Consumed(r) \in Reply
    BY <1>9 DEF Consumed, Reply, IInv, Kinds
  <2>2. HasHappened(Consumed(r), sessions)
    BY <1>9 DEF Consumed, HasHappened, IsConsumed, retainedTimerStartHistory,
                IInv, SessionsMatch
  <2> QED
    BY <2>1, <2>2
<1>3. ASSUME NEW r \in Requests, ReadForStart(r)
      PROVE  IInv'
  <2> DEFINE retained == retainedTimerStartHistory(profile.timerStartHistory, Instant(r))
  <2>1. /\ pc[r] = "sent" /\ req[r].kind = "start" /\ UNCHANGED <<clock, profile, issued, sessions>>
        /\ req[r] \in Request /\ req[r].timerId \in Operations
        /\ profile \in Profile
    BY <1>3 DEF ReadForStart, IInv, TypeOK, Kinds
  <2>2. \/ Answer(r, Conflict)
        \/ activeTimer /\ Answer(r, Existing)
        \/ IsConsumed(retained, req[r].timerId) /\ Answer(r, Consumed(r))
        \/ /\ ~activeTimer /\ CanAdvance /\ Proceed(r, "starting")
           /\ req' = [req EXCEPT ![r].instant = Instant(r)]
    BY <1>3 DEF ReadForStart
  <2>7. CASE /\ ~activeTimer /\ CanAdvance /\ Proceed(r, "starting")
             /\ req' = [req EXCEPT ![r].instant = Instant(r)]
    <3>1. Instant(r) \in Int
      BY <2>1 DEF Instant, Request, Times, IInv, TypeOK
    <3>2. [req[r] EXCEPT !.instant = Instant(r)] \in Request
      BY <2>1, <3>1 DEF Request, Times
    <3>3. TypeOK'
      BY <2>1, <2>7, <3>2 DEF Proceed, IInv, TypeOK, Pcs
    <3>4. Kinds'
      BY <2>1, <2>7, <3>1, <3>2 DEF Proceed, IInv, TypeOK, Kinds
    <3>5. SeenBefore'
      BY <2>1, <2>7, <3>2
      DEF Proceed, IInv, TypeOK, SeenBefore, activeTimer, CanAdvance, Number, Profile, Revisions
    <3> QED
      BY <2>1, <2>7, <3>3, <3>4, <3>5, QuietStep DEF Proceed
  <2> QED
    BY <2>1, <2>2, <2>7, <1>6, <1>7, <1>8, <1>9
<1>13. ASSUME NEW r \in Requests, pc[r] \in {"starting", "lost"}, req[r].kind = "start",
              StartSnapshot(r), WriteStart(r),
              NEW message \in Reply, Answer(r, message), UNCHANGED <<clock, issued>>,
              message = None \/ HasHappened(message, sessions')
       PROVE  IInv'
  <2>1. /\ profile' \in Profile /\ sessions' \subseteq Session
        /\ SessionsMatch' /\ ReceiptIsOfLastTimer'
        /\ sessions \subseteq sessions'
        /\ Number(profile'.timerRevision) = Number(profile.timerRevision) + 1
    BY <1>13, WriteStartSafe
  <2>2. TypeOK'
    BY <1>13, <2>1 DEF Answer, IInv, TypeOK, Pcs
  <2>3. Kinds'
    BY <1>13 DEF Answer, IInv, TypeOK, Kinds
  <2>4. SeenBefore'
    BY <1>13, <2>1 DEF Answer, IInv, TypeOK, SeenBefore, Number, Profile, Revisions
  <2>5. RepliesTrue'
    <3>1. ASSUME NEW q \in Requests, q # r, reply[q] # None
          PROVE  HasHappened(reply[q], sessions')
      <4>1. reply[q] \in Reply /\ HasHappened(reply[q], sessions)
        BY <3>1 DEF IInv, TypeOK, RepliesTrue
      <4> QED
        BY <2>1, <3>1, <4>1, HappenedStays
    <3>2. reply' = [reply EXCEPT ![r] = message] /\ reply \in [Requests -> Reply]
      BY <1>13 DEF Answer, IInv, TypeOK
    <3> QED
      BY <1>13, <3>1, <3>2 DEF RepliesTrue
  <2> QED
    BY <2>1, <2>2, <2>3, <2>4, <2>5 DEF IInv
<1>4. ASSUME NEW r \in Requests, CasStart(r), StartSnapshot(r)
      PROVE  IInv'
  <2> DEFINE message == [outcome |-> "running", session |-> Started(r)]
  <2>1. /\ pc[r] = "starting" /\ req[r].kind = "start" /\ WriteStart(r)
        /\ Answer(r, message) /\ UNCHANGED <<clock, issued>>
    BY <1>4 DEF CasStart, IInv, Kinds
  <2>2. Started(r) \in Session /\ Started(r) \in sessions'
    BY <1>4, <2>1, WriteStartSafe
  <2>3. message \in Reply /\ HasHappened(message, sessions')
    BY <2>2 DEF Reply, HasHappened
  <2> HIDE DEF message
  <2> QED
    BY <1>4, <1>13, <2>1, <2>3
<1>5. ASSUME NEW r \in Requests, CasStart(r), ~StartSnapshot(r)
      PROVE  IInv'
  <2>1. /\ pc[r] = "starting" /\ pc' = [pc EXCEPT ![r] = "classify"]
        /\ UNCHANGED <<clock, issued, profile, sessions, req, seen, reply>>
    BY <1>5 DEF CasStart
  <2>2. TypeOK' /\ Kinds' /\ SeenBefore'
    BY <2>1 DEF IInv, TypeOK, Kinds, SeenBefore, Pcs
  <2> QED
    BY <2>1, <2>2, QuietStep
<1>10. ASSUME NEW r \in Requests, Classify(r)
       PROVE  IInv'
  <2> DEFINE retained == retainedTimerStartHistory(profile.timerStartHistory, req[r].instant)
  <2>1. pc[r] = "classify" /\ req[r].kind = "start" /\ UNCHANGED <<clock, issued, profile, sessions>>
    BY <1>10 DEF Classify, IInv, Kinds
  <2>2. \/ Answer(r, Conflict)
        \/ activeTimer /\ Answer(r, Existing)
        \/ IsConsumed(retained, req[r].timerId) /\ Answer(r, Consumed(r))
    BY <1>10 DEF Classify
  <2> QED
    BY <2>1, <2>2, <1>6, <1>7, <1>8, <1>9
<1>11. ASSUME NEW r \in Requests, ReadForLegacyStop(r)
       PROVE  IInv'
  <2>1. CASE activeTimer
    <3>1. /\ pc[r] = "sent" /\ req[r] \in Request /\ profile \in Profile
          /\ req' = [req EXCEPT ![r].kind = "stop", ![r].timerId = profile.timerId,
                                ![r].revision = profile.timerRevision]
          /\ UNCHANGED <<pc, seen, reply, clock, profile, issued, sessions>>
      BY <1>11, <2>1 DEF ReadForLegacyStop, IInv, TypeOK
    <3>2. req'[r] = [req[r] EXCEPT !.kind = "stop", !.timerId = profile.timerId,
                                  !.revision = profile.timerRevision]
          /\ \A q \in Requests : q # r => req'[q] = req[q]
      BY <3>1 DEF IInv, TypeOK
    <3>3. req'[r] \in Request /\ req'[r].kind = "stop"
      <4>1. profile.timerId \in TimerIds /\ profile.timerRevision \in Revisions
        BY <3>1 DEF Profile
      <4> DEFINE new == [req[r] EXCEPT !.kind = "stop", !.timerId = profile.timerId,
                                       !.revision = profile.timerRevision]
      <4>2. new \in Request /\ new.kind = "stop"
        BY <3>1, <4>1 DEF Request
      <4>3. req'[r] = new
        BY <3>2
      <4> HIDE DEF new
      <4> QED
        BY <4>2, <4>3
    <3>4. TypeOK'
      BY <3>1, <3>3 DEF IInv, TypeOK
    <3>5. Kinds' /\ SeenBefore'
      BY ZenonT(60), <3>1, <3>2, <3>3 DEF IInv, Kinds, SeenBefore
    <3> QED
      BY <3>1, <3>4, <3>5, QuietStep
  <2>2. CASE ~activeTimer
    BY <1>6, <1>7, <1>11, <2>2 DEF ReadForLegacyStop
  <2> QED
    BY <2>1, <2>2
<1>12. ASSUME NEW r \in Requests, ReadForStop(r)
       PROVE  IInv'
  <2>1. /\ pc[r] = "sent" /\ req[r].kind = "stop" /\ UNCHANGED <<clock, profile, issued, sessions>>
        /\ req[r] \in Request /\ profile \in Profile
    BY <1>12 DEF ReadForStop, IInv, TypeOK
  <2>2. \/ Answer(r, Conflict)
        \/ /\ ReceiptMatches(r)
           /\ Answer(r, [outcome |-> "stopped", session |-> profile.timerStopReceipt, changed |-> FALSE])
        \/ /\ activeTimer /\ CanAdvance /\ Proceed(r, "stopping")
           /\ profile.timerRevision = req[r].revision
           /\ profile.timerId = req[r].timerId
           /\ req' = [req EXCEPT ![r].instant = clock]
    BY <1>12 DEF ReadForStop
  <2>3. CASE Answer(r, Conflict)
    BY <1>6, <1>7, <2>1, <2>3
  <2>4. CASE /\ ReceiptMatches(r)
             /\ Answer(r, [outcome |-> "stopped", session |-> profile.timerStopReceipt, changed |-> FALSE])
    <3>1. profile.timerStopReceipt \in sessions /\ profile.timerStopReceipt \in Receipt
      BY <2>1, <2>4 DEF ReceiptMatches, IInv, SessionsMatch, Profile
    <3> DEFINE message == [outcome |-> "stopped", session |-> profile.timerStopReceipt, changed |-> FALSE]
    <3>2. message \in Reply /\ HasHappened(message, sessions)
      BY <3>1 DEF Reply, HasHappened
    <3> QED
      BY <1>6, <2>1, <2>4, <3>2
  <2>5. CASE /\ activeTimer /\ CanAdvance /\ Proceed(r, "stopping")
             /\ profile.timerRevision = req[r].revision
             /\ profile.timerId = req[r].timerId
             /\ req' = [req EXCEPT ![r].instant = clock]
    <3>1. req'[r] = [req[r] EXCEPT !.instant = clock] /\ clock \in Int
          /\ \A q \in Requests : q # r => req'[q] = req[q]
      BY <2>5 DEF IInv, TypeOK
    <3>2. /\ req'[r] \in Request /\ req'[r].instant = clock /\ req'[r].kind = "stop"
          /\ req'[r].timerId = req[r].timerId /\ req'[r].revision = req[r].revision
      BY <2>1, <3>1 DEF Request, Times
    <3>3. TypeOK'
      BY <2>1, <2>5, <3>2 DEF Proceed, IInv, TypeOK, Pcs
    <3>4. Kinds'
      BY <2>1, <2>5, <3>1, <3>2 DEF Proceed, IInv, TypeOK, Kinds
    <3>5. SeenBefore'
      BY <2>1, <2>5, <3>1, <3>2
      DEF Proceed, IInv, TypeOK, SeenBefore, activeTimer, CanAdvance, Number, Profile, Revisions
    <3> QED
      BY <2>1, <2>5, <3>3, <3>4, <3>5, QuietStep DEF Proceed
  <2> QED
    BY <2>2, <2>3, <2>4, <2>5
<1>14. ASSUME NEW r \in Requests, pc[r] \in {"stopping", "lost"}, req[r].kind = "stop",
              Snapshot(r), WriteStop(r),
              NEW message \in Reply, Answer(r, message), UNCHANGED <<clock, issued>>,
              message = None \/ HasHappened(message, sessions')
       PROVE  IInv'
  <2>1. /\ profile' \in Profile /\ sessions' \subseteq Session
        /\ SessionsMatch' /\ ReceiptIsOfLastTimer'
        /\ Running \in sessions /\ Running.stoppedAt = None
        /\ Stopped(r) \in Receipt /\ Stopped(r) = [Running EXCEPT !.stoppedAt = req[r].instant]
        /\ sessions' = (sessions \ {Running}) \union {Stopped(r)}
        /\ Number(profile'.timerRevision) = Number(profile.timerRevision) + 1
    BY <1>14, WriteStopSafe
  <2>2. TypeOK'
    BY <1>14, <2>1 DEF Answer, IInv, TypeOK, Pcs
  <2>3. Kinds'
    BY <1>14 DEF Answer, IInv, TypeOK, Kinds
  <2>4. SeenBefore'
    BY <1>14, <2>1 DEF Answer, IInv, TypeOK, SeenBefore, Number, Profile, Revisions
  <2>5. RepliesTrue'
    <3>1. /\ Stopped(r).timerId = Running.timerId
          /\ Stopped(r).revision = Running.revision
          /\ Stopped(r).startTime = Running.startTime
      BY <2>1 DEF Running
    <3>2. \A field \in {"timerId", "revision", "startTime"} : Stopped(r)[field] = Running[field]
      BY <3>1
    <3>3. ASSUME NEW q \in Requests, q # r, reply[q] # None
          PROVE  HasHappened(reply[q], sessions')
      <4>1. reply[q] \in Reply /\ HasHappened(reply[q], sessions)
        BY <3>3 DEF IInv, TypeOK, RepliesTrue
      <4> HIDE DEF IInv
      <4> QED
        BY <2>1, <3>2, <3>3, <4>1, HappenedStays
    <3>4. reply' = [reply EXCEPT ![r] = message] /\ reply \in [Requests -> Reply]
      BY <1>14 DEF Answer, IInv, TypeOK
    <3> QED
      BY <1>14, <3>3, <3>4 DEF RepliesTrue
  <2> QED
    BY <2>1, <2>2, <2>3, <2>4, <2>5 DEF IInv
<1>15. ASSUME NEW r \in Requests, CasStop(r)
       PROVE  IInv'
  <2>1. /\ pc[r] = "stopping" /\ req[r].kind = "stop" /\ UNCHANGED <<clock, issued>>
    BY <1>15 DEF CasStop, IInv, Kinds
  <2>2. CASE Snapshot(r)
    <3> DEFINE message == [outcome |-> "stopped", session |-> Stopped(r), changed |-> TRUE]
    <3>1. WriteStop(r) /\ Answer(r, message)
      BY <1>15, <2>2 DEF CasStop
    <3>2. Stopped(r) \in Receipt /\ Stopped(r) \in sessions'
      BY <2>1, <2>2, <3>1, WriteStopSafe
    <3>3. message \in Reply /\ HasHappened(message, sessions')
      BY <3>2 DEF Reply, HasHappened
    <3> HIDE DEF message
    <3> QED
      BY <1>14, <2>1, <2>2, <3>1, <3>3
  <2>3. CASE ~Snapshot(r)
    BY <1>6, <1>7, <1>15, <2>1, <2>3 DEF CasStop
  <2> QED
    BY <2>2, <2>3
<1>16. ASSUME NEW r \in Requests, Fail(r)
       PROVE  IInv'
  <2>1. CASE Answer(r, None)
    BY <1>6, <1>7, <1>16, <2>1 DEF Fail
  <2>2. CASE /\ pc[r] \in {"starting", "stopping"} /\ pc' = [pc EXCEPT ![r] = "lost"]
             /\ UNCHANGED <<req, seen, reply, clock, profile, issued, sessions>>
    <3>1. TypeOK' /\ Kinds' /\ SeenBefore'
      BY <2>2 DEF IInv, TypeOK, Kinds, SeenBefore, Pcs
    <3> QED
      BY <2>2, <3>1, QuietStep
  <2> QED
    BY <1>16, <2>1, <2>2 DEF Fail
<1>17. ASSUME NEW r \in Requests, LandLate(r)
       PROVE  IInv'
  <2>1. pc[r] = "lost" /\ Answer(r, None) /\ UNCHANGED <<clock, issued>>
    BY <1>17 DEF LandLate
  <2>2. CASE req[r].kind = "start" /\ StartSnapshot(r) /\ WriteStart(r)
    BY <1>7, <1>13, <2>1, <2>2
  <2>3. CASE req[r].kind = "stop" /\ Snapshot(r) /\ WriteStop(r)
    BY <1>7, <1>14, <2>1, <2>3
  <2>4. CASE UNCHANGED <<profile, sessions>>
    BY <1>6, <1>7, <2>1, <2>4
  <2> QED
    BY <1>17, <2>2, <2>3, <2>4 DEF LandLate
<1>18. CASE UNCHANGED vars
  <2>1. TypeOK' /\ Kinds' /\ SeenBefore'
    BY <1>18 DEF vars, IInv, TypeOK, Kinds, SeenBefore
  <2> QED
    BY <1>18, <2>1, QuietStep DEF vars
<1> QED
  BY <1>1, <1>2, <1>3, <1>4, <1>5, <1>10, <1>11, <1>12, <1>15, <1>16, <1>17, <1>18
  DEF Next, Progress

------------------------------------------------------------------------------
\* The inductive invariant holds in every reachable state.
THEOREM Invariance == Spec => []IInv
  BY InitIInv, StepIInv, PTL DEF Spec

\* Every field keeps the shape the code gives it.
THEOREM TypeCorrect == Spec => []TypeOK
<1>1. IInv => TypeOK
  BY DEF IInv
<1> QED
  BY <1>1, Invariance, PTL

\* Whatever a client was told of a timer is true of a timer that ran.
THEOREM RepliesAreTrue == Spec => []RepliesTrue
<1>1. IInv => RepliesTrue
  BY DEF IInv
<1> QED
  BY <1>1, Invariance, PTL

\* An exact repeat of the last stop finds its receipt.
THEOREM ReceiptsLast == Spec => []ReceiptIsOfLastTimer
<1>1. IInv => ReceiptIsOfLastTimer
  BY DEF IInv
<1> QED
  BY <1>1, Invariance, PTL

------------------------------------------------------------------------------
\* The clocks: a request is decided while it is young, and the time it names is
\* at most Skew from the server's.
Young(r) ==
    /\ pc[r] \notin {"idle", "lost"} => clock <= req[r].sentAt + Delay
    /\ pc[r] # "idle" /\ req[r].kind = "start" =>
           /\ issued[req[r].timerId] # None
           /\ req[r].sentAt < issued[req[r].timerId].at + Retention
           /\ req[r].instant # None =>
                  /\ issued[req[r].timerId].at - Skew <= req[r].instant
                  /\ req[r].instant <= clock + Skew

Named(o) ==
    issued[o] # None =>
        /\ issued[o].at <= clock
        /\ issued[o].timestamp # None =>
               /\ issued[o].at - Skew <= issued[o].timestamp
               /\ issued[o].timestamp <= issued[o].at + Skew

Timing == (\A r \in Requests : Young(r)) /\ (\A o \in Operations : Named(o))

\* Until when the history keeps an operation at least.
Due(o) == issued[o].at - Skew + Retention + Grace

Remembers ==
    \A s \in sessions :
        s.timerId # None =>
            /\ issued[s.timerId] # None
            /\ \/ \E e \in profile.timerStartHistory :
                      e.operationId = s.timerId /\ e.expiresAt >= Due(s.timerId)
               \/ clock + Skew >= Due(s.timerId)

\* An operation that is about to start had not started when its request looked.
NotStartedSince ==
    \A r \in Requests :
        pc[r] \in {"starting", "lost"} /\ req[r].kind = "start" =>
            \A s \in sessions :
                s.timerId = req[r].timerId =>
                    Number(s.revision) > Number(seen[r].timerRevision)

OnceInv == StartsOnce /\ Timing /\ Remembers /\ NotStartedSince

LEMMA InitOnceInv == Init => OnceInv
  BY TimerAssumption DEF Init, OnceInv, StartsOnce, Timing, Young, Named, Remembers, NotStartedSince

\* The argument about time: a repeat that finds neither a running timer nor a
\* history entry of its operation belongs to one that never started.
LEMMA NotYetStarted ==
    ASSUME GraceCovers, IInv, OnceInv, NEW r \in Requests,
           pc[r] = "sent", req[r].kind = "start",
           ~IsConsumed(retainedTimerStartHistory(profile.timerStartHistory, Instant(r)),
                       req[r].timerId)
    PROVE  \A s \in sessions : s.timerId # req[r].timerId
<1> USE TimerAssumption
<1> DEFINE o == req[r].timerId
<1>1. /\ o \in Operations /\ issued[o] \in [at: Nat, timestamp: Times]
      /\ req[r] \in Request /\ clock \in Nat /\ profile.timerStartHistory \subseteq Entry
  BY DEF IInv, TypeOK, Kinds, OnceInv, Timing, Young, Profile
<1>2. /\ clock < issued[o].at + Retention + Delay
      /\ Instant(r) \in Int /\ Instant(r) <= clock + Skew
  BY <1>1 DEF OnceInv, Timing, Young, Named, Instant, Request, Times
<1>3. Due(o) \in Int /\ clock + Skew < Due(o)
  BY <1>1, <1>2 DEF GraceCovers, Due
<1>4. \A e \in profile.timerStartHistory : e.operationId = o => e.expiresAt < Due(o)
  BY <1>1, <1>2, <1>3 DEF IsConsumed, retainedTimerStartHistory, Entry
<1>5. SUFFICES ASSUME NEW s \in sessions, s.timerId = o
               PROVE  FALSE
  OBVIOUS
<1>6. \/ \E e \in profile.timerStartHistory : e.operationId = o /\ e.expiresAt >= Due(o)
      \/ clock + Skew >= Due(o)
  BY <1>1, <1>5 DEF OnceInv, Remembers
<1> HIDE DEF o
<1>7. \A e \in profile.timerStartHistory : e.expiresAt \in Int
  BY <1>1 DEF Entry
<1> QED
  BY <1>1, <1>3, <1>4, <1>6, <1>7

\* A step that leaves the timer alone.
LEMMA QuietOnce ==
    ASSUME IInv, OnceInv, UNCHANGED <<profile, sessions>>, Timing', NotStartedSince',
           clock' \in Nat, clock' >= clock,
           \A o \in Operations : issued[o] # None => issued'[o] = issued[o]
    PROVE  OnceInv'
<1> USE TimerAssumption
<1>1. StartsOnce'
  BY DEF OnceInv, StartsOnce
<1>2. Remembers'
  <2> SUFFICES ASSUME NEW s \in sessions, s.timerId # None
               PROVE  /\ issued'[s.timerId] # None
                      /\ \/ \E e \in profile.timerStartHistory :
                                /\ e.operationId = s.timerId
                                /\ e.expiresAt >= Due(s.timerId)'
                         \/ clock' + Skew >= Due(s.timerId)'
    BY DEF Remembers
  <2>1. s.timerId \in Operations /\ issued[s.timerId] # None /\ clock \in Nat
    BY DEF OnceInv, Remembers, IInv, TypeOK, Session, TimerIds
  <2>2. issued'[s.timerId] = issued[s.timerId]
    BY <2>1
  <2>3. Due(s.timerId) \in Int
    BY <2>1 DEF Due, IInv, TypeOK
  <2> QED
    BY <2>1, <2>2, <2>3 DEF OnceInv, Remembers, Due
<1> QED
  BY <1>1, <1>2 DEF OnceInv

\* A start that lands is the first of its operation, and is remembered.
LEMMA WriteStartOnce ==
    ASSUME IInv, OnceInv, NEW r \in Requests, NEW message,
           pc[r] \in {"starting", "lost"}, req[r].kind = "start",
           StartSnapshot(r), WriteStart(r), Answer(r, message),
           UNCHANGED <<clock, issued>>
    PROVE  OnceInv'
<1> USE TimerAssumption
<1> DEFINE o == req[r].timerId
           retained == retainedTimerStartHistory(seen[r].timerStartHistory, req[r].instant)
           entry == [operationId |-> o, expiresAt |-> req[r].instant + Retention + Grace]
<1>1. /\ o \in Operations /\ issued[o] \in [at: Nat, timestamp: Times]
      /\ req[r].instant \in Int /\ clock \in Nat
      /\ issued[o].at - Skew <= req[r].instant /\ req[r].instant <= clock + Skew
  BY DEF IInv, TypeOK, Kinds, OnceInv, Timing, Young, Times
<1>2. /\ sessions' = sessions \union {Started(r)} /\ Started(r) \in Session
      /\ Started(r).timerId = o
      /\ Number(Started(r).revision) = Number(profile.timerRevision) + 1
  <2>1. sessions' = sessions \union {Started(r)} /\ Started(r) \in Session
    BY WriteStartSafe
  <2>2. Number(seen[r].timerRevision) \in Nat /\ seen[r].timerRevision = profile.timerRevision
    BY DEF StartSnapshot, Snapshot, IInv, TypeOK, Profile, Number, Revisions
  <2> QED
    BY <2>1, <2>2 DEF Started, Number
<1>3. /\ profile'.timerStartHistory = retained \union {entry}
      /\ seen[r].timerStartHistory = profile.timerStartHistory
      /\ profile.timerStartHistory \subseteq Entry
  BY DEF WriteStart, StartSnapshot, IInv, TypeOK, Profile
<1>4. \A s \in sessions : /\ Number(s.revision) <= Number(profile.timerRevision)
                          /\ Number(s.revision) \in Nat
                          /\ s.timerId \in TimerIds
  BY DEF IInv, TypeOK, SessionsMatch, Session, Number, Revisions
<1>5. \A s \in sessions : s.timerId # o
  <2>1. \A s \in sessions : s.timerId = o => Number(s.revision) > Number(seen[r].timerRevision)
    BY DEF OnceInv, NotStartedSince
  <2>2. Number(seen[r].timerRevision) = Number(profile.timerRevision)
        /\ Number(profile.timerRevision) \in Nat
    BY DEF StartSnapshot, Snapshot, IInv, TypeOK, Profile, Number, Revisions
  <2> QED
    BY <2>1, <2>2, <1>4
<1>6. StartsOnce'
  BY <1>2, <1>5 DEF OnceInv, StartsOnce
<1>7. /\ pc' = [pc EXCEPT ![r] = "idle"] /\ req' = [req EXCEPT ![r] = None]
      /\ seen' = [seen EXCEPT ![r] = None]
  BY DEF Answer
<1>8. Timing'
  BY <1>7 DEF IInv, TypeOK, OnceInv, Timing, Young, Named
<1>9. Remembers'
  <2>1. ASSUME NEW s \in sessions, s.timerId # None
        PROVE  \/ \E e \in retained : e.operationId = s.timerId /\ e.expiresAt >= Due(s.timerId)
               \/ clock + Skew >= Due(s.timerId)
    <3>1. s.timerId \in Operations /\ issued[s.timerId] # None
      BY <1>4, <2>1 DEF TimerIds, OnceInv, Remembers
    <3>2. Due(s.timerId) \in Int
      BY <3>1 DEF Due, IInv, TypeOK
    <3>3. CASE \E e \in profile.timerStartHistory :
                  e.operationId = s.timerId /\ e.expiresAt >= Due(s.timerId)
      <4>1. PICK e \in profile.timerStartHistory :
                  e.operationId = s.timerId /\ e.expiresAt >= Due(s.timerId)
        BY <3>3
      <4>2. e.expiresAt \in Int
        BY <1>3 DEF Entry
      <4>3. CASE e.expiresAt > req[r].instant
        BY <4>1, <4>3, <1>3 DEF retainedTimerStartHistory
      <4>4. CASE ~(e.expiresAt > req[r].instant)
        <5> HIDE DEF o, retained, entry
        <5> QED
          BY <4>1, <4>2, <4>4, <1>1, <3>2
      <4> QED
        BY <4>3, <4>4
    <3>4. CASE clock + Skew >= Due(s.timerId)
      BY <3>4
    <3> HIDE DEF retained
    <3> QED
      BY <2>1, <3>3, <3>4 DEF OnceInv, Remembers
  <2>2. entry.operationId = o /\ entry.expiresAt >= Due(o)
    BY <1>1 DEF Due
  <2>3. \A x : Due(x)' = Due(x)
    BY DEF Due
  <2>4. o # None /\ issued[o] # None
    BY <1>1 DEF OnceInv, Timing, Young, IInv, TypeOK
  <2> HIDE DEF o, retained, entry
  <2>5. \A s \in sessions : s.timerId # None => issued[s.timerId] # None
    BY DEF OnceInv, Remembers
  <2>6. SUFFICES ASSUME NEW s \in sessions', s.timerId # None
                 PROVE  /\ issued[s.timerId] # None
                        /\ \/ \E e \in profile'.timerStartHistory :
                                  e.operationId = s.timerId /\ e.expiresAt >= Due(s.timerId)
                           \/ clock + Skew >= Due(s.timerId)
    BY <2>3 DEF Remembers
  <2>7. CASE s \in sessions
    BY <2>1, <2>5, <2>6, <2>7, <1>3
  <2>8. CASE s = Started(r)
    BY <2>2, <2>4, <2>8, <1>2, <1>3
  <2> QED
    BY <1>2, <2>7, <2>8
<1>10. NotStartedSince'
  <2> SUFFICES ASSUME NEW q \in Requests, pc'[q] \in {"starting", "lost"},
                      req'[q].kind = "start", NEW s \in sessions', s.timerId = req'[q].timerId
               PROVE  Number(s.revision) > Number(seen'[q].timerRevision)
    BY DEF NotStartedSince
  <2>1. /\ pc[q] \in {"starting", "lost"} /\ req[q].kind = "start" /\ seen'[q] = seen[q]
        /\ req'[q] = req[q]
    BY <1>7 DEF IInv, TypeOK
  <2>2. CASE s \in sessions
    BY <2>1, <2>2 DEF OnceInv, NotStartedSince
  <2>3. CASE s = Started(r)
    <3>1. /\ Number(seen[q].timerRevision) <= Number(profile.timerRevision)
          /\ Number(seen[q].timerRevision) \in Int /\ Number(profile.timerRevision) \in Int
      BY <2>1 DEF IInv, TypeOK, SeenBefore, Profile, Number, Revisions
    <3> QED
      BY <1>2, <2>1, <2>3, <3>1
  <2> QED
    BY <1>2, <2>2, <2>3
<1> QED
  BY <1>6, <1>8, <1>9, <1>10 DEF OnceInv

\* A stop that lands ends the timer that runs, and forgets no operation.
LEMMA WriteStopOnce ==
    ASSUME IInv, OnceInv, NEW r \in Requests, NEW message,
           pc[r] \in {"stopping", "lost"}, req[r].kind = "stop",
           Snapshot(r), WriteStop(r), Answer(r, message),
           UNCHANGED <<clock, issued>>
    PROVE  OnceInv'
<1>1. /\ Running \in sessions
      /\ Stopped(r) = [Running EXCEPT !.stoppedAt = req[r].instant]
      /\ sessions' = (sessions \ {Running}) \union {Stopped(r)}
      /\ profile'.timerStartHistory = profile.timerStartHistory
  BY WriteStopSafe
<1>2. Stopped(r).timerId = Running.timerId /\ Stopped(r).revision = Running.revision
  BY <1>1 DEF Running
<1>3. \A s \in sessions' : \E t \in sessions : s.timerId = t.timerId /\ s.revision = t.revision
  BY <1>1, <1>2
<1>4. StartsOnce'
  BY ZenonT(60), <1>1, <1>2 DEF OnceInv, StartsOnce
<1>5. /\ pc' = [pc EXCEPT ![r] = "idle"] /\ req' = [req EXCEPT ![r] = None]
      /\ seen' = [seen EXCEPT ![r] = None]
  BY DEF Answer
<1>6. Timing'
  BY <1>5 DEF IInv, TypeOK, OnceInv, Timing, Young, Named
<1>7. Remembers'
  <2>1. \A x : Due(x)' = Due(x)
    BY DEF Due
  <2> QED
    BY <1>1, <1>3, <2>1 DEF OnceInv, Remembers
<1>8. NotStartedSince'
  <2> SUFFICES ASSUME NEW q \in Requests, pc'[q] \in {"starting", "lost"},
                      req'[q].kind = "start", NEW s \in sessions', s.timerId = req'[q].timerId
               PROVE  Number(s.revision) > Number(seen'[q].timerRevision)
    BY DEF NotStartedSince
  <2>1. /\ pc[q] \in {"starting", "lost"} /\ req[q].kind = "start" /\ seen'[q] = seen[q]
        /\ req'[q] = req[q]
    BY <1>5 DEF IInv, TypeOK
  <2>2. PICK t \in sessions : s.timerId = t.timerId /\ s.revision = t.revision
    BY <1>3
  <2> QED
    BY <2>1, <2>2 DEF OnceInv, NotStartedSince
<1> QED
  BY <1>4, <1>6, <1>7, <1>8 DEF OnceInv

\* A request arrives, naming in time an operation that was issued.
LEMMA ArriveOnce ==
    ASSUME IInv, IInv', OnceInv, NEW r \in Requests,
           NEW kind, NEW timerId, NEW revision, NEW instant,
           Send(r, kind, timerId, revision, instant),
           \A o \in Operations : Named(o)',
           \A o \in Operations : issued[o] # None => issued'[o] = issued[o],
           kind = "start" =>
               /\ issued'[timerId] # None
               /\ clock < issued'[timerId].at + Retention
               /\ instant = issued'[timerId].timestamp
    PROVE  OnceInv'
<1> USE TimerAssumption
<1>1. /\ pc[r] = "idle"
      /\ pc' = [pc EXCEPT ![r] = "sent"] /\ UNCHANGED <<clock, profile, seen, sessions>>
      /\ req' = [req EXCEPT ![r] = [kind |-> kind, timerId |-> timerId,
                                    revision |-> revision, instant |-> instant,
                                    sentAt |-> clock]]
      /\ clock \in Nat
  BY DEF Send, IInv, TypeOK
<1>2. ASSUME NEW q \in Requests, q # r
      PROVE  Young(q)'
  <2>1. pc'[q] = pc[q] /\ req'[q] = req[q]
    BY <1>1, <1>2 DEF IInv, TypeOK
  <2>2. pc[q] # "idle" /\ req[q].kind = "start" =>
            issued'[req[q].timerId] = issued[req[q].timerId]
    BY DEF IInv, Kinds, OnceInv, Timing, Young
  <2> QED
    BY <1>1, <2>1, <2>2 DEF OnceInv, Timing, Young
<1>3. Young(r)'
  <2>1. /\ pc'[r] = "sent" /\ req'[r].kind = kind /\ req'[r].timerId = timerId
        /\ req'[r].instant = instant /\ req'[r].sentAt = clock
    BY <1>1 DEF IInv, TypeOK
  <2>2. CASE kind # "start"
    BY <1>1, <2>1, <2>2 DEF Young
  <2>3. CASE kind = "start"
    <3>1. timerId \in Operations
      BY <2>1, <2>3 DEF IInv, Kinds
    <3>2. issued'[timerId].at \in Nat /\ issued'[timerId].timestamp \in Times
      BY <2>3, <3>1 DEF IInv, TypeOK
    <3>3. Named(timerId)'
      BY <3>1
    <3> QED
      BY <1>1, <2>1, <2>3, <3>1, <3>2, <3>3 DEF Young, Named, Times
  <2> QED
    BY <2>2, <2>3
<1>4. Timing'
  BY <1>2, <1>3 DEF Timing
<1>5. NotStartedSince'
  BY <1>1 DEF IInv, TypeOK, OnceInv, NotStartedSince
<1> QED
  BY <1>1, <1>4, <1>5, QuietOnce

LEMMA StepOnceInv == GraceCovers /\ IInv /\ OnceInv /\ [Next]_vars => OnceInv'
<1> SUFFICES ASSUME GraceCovers, IInv, OnceInv, [Next]_vars
             PROVE  OnceInv'
  OBVIOUS
<1> USE TimerAssumption
<1>0. clock \in Nat /\ IInv'
  BY StepIInv DEF IInv, TypeOK
<1>1. CASE Tick
  <2>1. Timing'
    <3>1. \A r \in Requests : Young(r)'
      BY <1>0, <1>1 DEF Tick, OnceInv, Timing, Young, IInv, TypeOK, Kinds, Request, Times
    <3>2. \A o \in Operations : Named(o)'
      BY <1>0, <1>1 DEF Tick, OnceInv, Timing, Named, IInv, TypeOK
    <3> QED
      BY <3>1, <3>2 DEF Timing
  <2>2. NotStartedSince'
    BY <1>1 DEF Tick, OnceInv, NotStartedSince
  <2> QED
    BY <1>0, <1>1, <2>1, <2>2, QuietOnce DEF Tick
<1>2. ASSUME NEW r \in Requests, NEW o \in Operations,
             NEW timestamp \in (clock - Skew)..(clock + Skew) \union {None},
             SendStart(r, o, timestamp)
      PROVE  OnceInv'
  <2>1. /\ issued[o] = None /\ Send(r, "start", o, None, timestamp)
        /\ issued'[o] = [at |-> clock, timestamp |-> timestamp]
        /\ issued'[o] # None
        /\ \A p \in Operations : p # o => issued'[p] = issued[p]
        /\ clock' = clock
    <3>1. [at |-> clock, timestamp |-> timestamp] \in [at: Nat, timestamp: Int \union {None}]
      BY <1>0
    <3> QED
      BY <1>0, <1>2, <3>1 DEF SendStart, Send, IInv, TypeOK
  <2>2. \A p \in Operations : Named(p)'
    BY <1>0, <2>1 DEF OnceInv, Timing, Named
  <2> QED
    BY <1>0, <2>1, <2>2, ArriveOnce
<1>3. ASSUME NEW r \in Requests, NEW o \in Operations, RepeatStart(r, o)
      PROVE  OnceInv'
  <2>1. /\ issued' = issued /\ Send(r, "start", o, None, issued[o].timestamp)
        /\ issued[o] # None /\ clock < issued[o].at + Retention /\ clock' = clock
    BY <1>3 DEF RepeatStart, Send
  <2>2. \A p \in Operations : Named(p)'
    BY <2>1 DEF OnceInv, Timing, Named
  <2> QED
    BY <1>0, <2>1, <2>2, ArriveOnce
<1>4. ASSUME NEW r \in Requests, NEW kind, kind # "start", NEW timerId, NEW revision,
             NEW instant, Send(r, kind, timerId, revision, instant), UNCHANGED issued
      PROVE  OnceInv'
  <2>1. \A p \in Operations : Named(p)'
    BY <1>4 DEF Send, OnceInv, Timing, Named
  <2> QED
    BY <1>0, <1>4, <2>1, ArriveOnce
<1>5. ASSUME NEW r \in Requests, Arrive(r)
      PROVE  OnceInv'
  BY <1>2, <1>3, <1>4, <1>5 DEF Arrive, SendStop, SendLegacyStop
<1>6. ASSUME NEW r \in Requests, NEW message, Answer(r, message),
             UNCHANGED <<clock, issued, profile, sessions>>
      PROVE  OnceInv'
  <2>1. Timing' /\ NotStartedSince'
    BY <1>6 DEF Answer, IInv, TypeOK, OnceInv, Timing, Young, Named, NotStartedSince
  <2> QED
    BY <1>0, <1>6, <2>1, QuietOnce
<1>7. ASSUME NEW r \in Requests, ReadForStart(r)
      PROVE  OnceInv'
  <2> DEFINE retained == retainedTimerStartHistory(profile.timerStartHistory, Instant(r))
  <2>1. CASE \E message : Answer(r, message)
    BY <1>6, <1>7, <2>1 DEF ReadForStart
  <2>2. CASE /\ ~IsConsumed(retained, req[r].timerId) /\ Proceed(r, "starting")
             /\ req' = [req EXCEPT ![r].instant = Instant(r)]
    <3>1. /\ pc[r] = "sent" /\ req[r].kind = "start" /\ req[r] \in Request
          /\ UNCHANGED <<clock, issued, profile, sessions>>
          /\ pc' = [pc EXCEPT ![r] = "starting"] /\ seen' = [seen EXCEPT ![r] = profile]
      BY <1>7, <2>2 DEF ReadForStart, Proceed, IInv, TypeOK
    <3>2. /\ req'[r] = [req[r] EXCEPT !.instant = Instant(r)]
          /\ \A q \in Requests : q # r => /\ req'[q] = req[q] /\ pc'[q] = pc[q]
                                          /\ seen'[q] = seen[q]
      BY <2>2, <3>1 DEF IInv, TypeOK
    <3>3. /\ req'[r].kind = "start" /\ req'[r].timerId = req[r].timerId
          /\ req'[r].sentAt = req[r].sentAt /\ req'[r].instant = Instant(r)
      <4> DEFINE new == [req[r] EXCEPT !.instant = Instant(r)]
      <4>1. /\ new.kind = "start" /\ new.timerId = req[r].timerId
            /\ new.sentAt = req[r].sentAt /\ new.instant = Instant(r)
        BY <3>1 DEF Request
      <4> QED
        BY <3>2, <4>1
    <3>4. \A s \in sessions : s.timerId # req[r].timerId
      BY <2>2, <3>1, NotYetStarted
    <3>5. NotStartedSince'
      <4> SUFFICES ASSUME NEW q \in Requests, pc'[q] \in {"starting", "lost"},
                          req'[q].kind = "start", NEW s \in sessions,
                          s.timerId = req'[q].timerId
                   PROVE  Number(s.revision) > Number(seen'[q].timerRevision)
        BY <3>1 DEF NotStartedSince
      <4>1. q # r
        BY <3>3, <3>4
      <4>2. req'[q] = req[q] /\ pc'[q] = pc[q] /\ seen'[q] = seen[q]
        BY <3>2, <4>1
      <4> QED
        BY <4>2 DEF OnceInv, NotStartedSince
    <3>6. Young(r)'
      <4>1. /\ req[r].timerId \in Operations /\ issued[req[r].timerId].at \in Nat
            /\ issued[req[r].timerId].at <= clock
        BY <3>1 DEF IInv, TypeOK, Kinds, OnceInv, Timing, Young, Named
      <4>2. Young(r)
        BY DEF OnceInv, Timing
      <4> QED
        BY <1>0, <3>1, <3>3, <4>1, <4>2 DEF Young, Instant
    <3>7. ASSUME NEW q \in Requests, q # r
          PROVE  Young(q)'
      BY <3>1, <3>2, <3>7 DEF OnceInv, Timing, Young
    <3>8. \A o \in Operations : Named(o)'
      BY <3>1 DEF OnceInv, Timing, Named
    <3>9. Timing'
      BY <3>6, <3>7, <3>8 DEF Timing
    <3> QED
      BY <1>0, <3>1, <3>5, <3>9, QuietOnce
  <2> QED
    BY <1>7, <2>1, <2>2 DEF ReadForStart
<1>8. ASSUME NEW r \in Requests, CasStart(r)
      PROVE  OnceInv'
  <2>1. pc[r] = "starting" /\ req[r].kind = "start" /\ UNCHANGED <<clock, issued>>
    BY <1>8 DEF CasStart, IInv, Kinds
  <2>2. CASE StartSnapshot(r)
    <3> DEFINE message == [outcome |-> "running", session |-> Started(r)]
    <3>1. WriteStart(r) /\ Answer(r, message)
      BY <1>8, <2>2 DEF CasStart
    <3> HIDE DEF message
    <3> QED
      BY <2>1, <2>2, <3>1, WriteStartOnce
  <2>3. CASE ~StartSnapshot(r)
    <3>1. /\ pc' = [pc EXCEPT ![r] = "classify"]
          /\ UNCHANGED <<profile, sessions, req, seen, reply>>
      BY <1>8, <2>3 DEF CasStart
    <3>2. Timing' /\ NotStartedSince'
      BY <2>1, <3>1 DEF IInv, TypeOK, OnceInv, Timing, Young, Named, NotStartedSince
    <3> QED
      BY <1>0, <2>1, <3>1, <3>2, QuietOnce
  <2> QED
    BY <2>2, <2>3
<1>9. ASSUME NEW r \in Requests, Classify(r)
      PROVE  OnceInv'
  BY <1>6, <1>9 DEF Classify
<1>10. ASSUME NEW r \in Requests, ReadForLegacyStop(r)
       PROVE  OnceInv'
  <2>1. CASE activeTimer
    <3>1. /\ pc[r] = "sent" /\ req[r] \in Request
          /\ req' = [req EXCEPT ![r].kind = "stop", ![r].timerId = profile.timerId,
                                ![r].revision = profile.timerRevision]
          /\ UNCHANGED <<pc, seen, reply, clock, profile, issued, sessions>>
      BY <1>10, <2>1 DEF ReadForLegacyStop, IInv, TypeOK
    <3>2. req'[r] = [req[r] EXCEPT !.kind = "stop", !.timerId = profile.timerId,
                                   !.revision = profile.timerRevision]
          /\ \A q \in Requests : q # r => req'[q] = req[q]
      BY <3>1 DEF IInv, TypeOK
    <3>3. req'[r].kind = "stop" /\ req'[r].sentAt = req[r].sentAt
      <4> DEFINE new == [req[r] EXCEPT !.kind = "stop", !.timerId = profile.timerId,
                                       !.revision = profile.timerRevision]
      <4>1. new.kind = "stop" /\ new.sentAt = req[r].sentAt
        BY <3>1 DEF Request
      <4> QED
        BY <3>2, <4>1
    <3>4. Timing' /\ NotStartedSince'
      BY ZenonT(60), <3>1, <3>2, <3>3 DEF OnceInv, Timing, Young, Named, NotStartedSince
    <3> QED
      BY <1>0, <3>1, <3>4, QuietOnce
  <2>2. CASE ~activeTimer
    BY <1>6, <1>10, <2>2 DEF ReadForLegacyStop
  <2> QED
    BY <2>1, <2>2
<1>11. ASSUME NEW r \in Requests, ReadForStop(r)
       PROVE  OnceInv'
  <2>1. CASE \E message : Answer(r, message)
    BY <1>6, <1>11, <2>1 DEF ReadForStop
  <2>2. CASE Proceed(r, "stopping") /\ req' = [req EXCEPT ![r].instant = clock]
    <3>1. /\ pc[r] = "sent" /\ req[r].kind = "stop" /\ req[r] \in Request
          /\ UNCHANGED <<clock, issued, profile, sessions>>
          /\ pc' = [pc EXCEPT ![r] = "stopping"] /\ seen' = [seen EXCEPT ![r] = profile]
      BY <1>11, <2>2 DEF ReadForStop, Proceed, IInv, TypeOK
    <3>2. /\ req'[r] = [req[r] EXCEPT !.instant = clock] /\ pc'[r] = "stopping"
          /\ \A q \in Requests : q # r => /\ req'[q] = req[q] /\ pc'[q] = pc[q]
                                          /\ seen'[q] = seen[q]
      BY <2>2, <3>1 DEF IInv, TypeOK
    <3>3. req'[r].kind = "stop" /\ req'[r].sentAt = req[r].sentAt
      BY <3>1, <3>2 DEF Request
    <3>4. Timing' /\ NotStartedSince'
      BY ZenonT(60), <3>1, <3>2, <3>3 DEF OnceInv, Timing, Young, Named, NotStartedSince
    <3> QED
      BY <1>0, <3>1, <3>4, QuietOnce
  <2> QED
    BY <1>11, <2>1, <2>2 DEF ReadForStop
<1>12. ASSUME NEW r \in Requests, CasStop(r)
       PROVE  OnceInv'
  <2>1. pc[r] = "stopping" /\ req[r].kind = "stop" /\ UNCHANGED <<clock, issued>>
    BY <1>12 DEF CasStop, IInv, Kinds
  <2>2. CASE Snapshot(r)
    <3> DEFINE message == [outcome |-> "stopped", session |-> Stopped(r), changed |-> TRUE]
    <3>1. WriteStop(r) /\ Answer(r, message)
      BY <1>12, <2>2 DEF CasStop
    <3> HIDE DEF message
    <3> QED
      BY <2>1, <2>2, <3>1, WriteStopOnce
  <2>3. CASE ~Snapshot(r)
    BY <1>6, <1>12, <2>1, <2>3 DEF CasStop
  <2> QED
    BY <2>2, <2>3
<1>13. ASSUME NEW r \in Requests, Fail(r)
       PROVE  OnceInv'
  <2>1. CASE Answer(r, None)
    BY <1>6, <1>13, <2>1 DEF Fail
  <2>2. CASE /\ pc[r] \in {"starting", "stopping"} /\ pc' = [pc EXCEPT ![r] = "lost"]
             /\ UNCHANGED <<req, seen, reply, clock, profile, issued, sessions>>
    <3>1. Timing' /\ NotStartedSince'
      BY <2>2 DEF IInv, TypeOK, Kinds, OnceInv, Timing, Young, Named, NotStartedSince
    <3> QED
      BY <1>0, <2>2, <3>1, QuietOnce
  <2> QED
    BY <1>13, <2>1, <2>2 DEF Fail
<1>14. ASSUME NEW r \in Requests, LandLate(r)
       PROVE  OnceInv'
  <2>1. pc[r] = "lost" /\ Answer(r, None) /\ UNCHANGED <<clock, issued>>
    BY <1>14 DEF LandLate
  <2>2. CASE req[r].kind = "start" /\ StartSnapshot(r) /\ WriteStart(r)
    BY <2>1, <2>2, WriteStartOnce
  <2>3. CASE req[r].kind = "stop" /\ Snapshot(r) /\ WriteStop(r)
    BY <2>1, <2>3, WriteStopOnce
  <2>4. CASE UNCHANGED <<profile, sessions>>
    BY <1>6, <2>1, <2>4
  <2> QED
    BY <1>14, <2>2, <2>3, <2>4 DEF LandLate
<1>15. CASE UNCHANGED vars
  <2>1. Timing' /\ NotStartedSince'
    BY <1>15 DEF vars, OnceInv, Timing, Young, Named, NotStartedSince
  <2> QED
    BY <1>0, <1>15, <2>1, QuietOnce DEF vars
<1> QED
  BY <1>1, <1>5, <1>7, <1>8, <1>9, <1>10, <1>11, <1>12, <1>13, <1>14, <1>15
  DEF Next, Progress

\* If the grace period outlasts twice the clock error and the longest request,
\* no operation starts a second timer.
THEOREM StartedOnce == ASSUME GraceCovers PROVE Spec => []StartsOnce
<1>1. Init => IInv /\ OnceInv
  BY InitIInv, InitOnceInv
<1>2. IInv /\ OnceInv /\ [Next]_vars => (IInv /\ OnceInv)'
  BY GraceCovers, StepIInv, StepOnceInv
<1>3. OnceInv => StartsOnce
  BY DEF OnceInv
<1> QED
  BY <1>1, <1>2, <1>3, PTL DEF Spec

\* The step form of AnswersNameTheRequest.
LEMMA StepNamed ==
    ASSUME IInv, [Next]_vars
    PROVE  \A r \in Requests : NamesItsTimer(r)
<1> SUFFICES ASSUME IInv, Next, NEW r \in Requests,
                    pc[r] \in {"sent", "starting", "stopping", "classify"}, reply'[r] # None
             PROVE  NamesItsTimer(r)
  BY DEF vars, NamesItsTimer, IInv, Kinds
<1> USE TimerAssumption
<1>1. reply[r] = None
  BY DEF IInv, Kinds
<1>2. ASSUME NEW q \in Requests, NEW message, Answer(q, message)
      PROVE  q = r /\ reply'[r] = message /\ message # None
  BY <1>1, <1>2 DEF Answer, IInv, TypeOK
<1>3. ~Tick
  BY <1>1 DEF Tick
<1>4. ASSUME NEW q \in Requests, Arrive(q)
      PROVE  FALSE
  <2>1. reply' = [reply EXCEPT ![q] = None]
    BY <1>4 DEF Arrive, SendStart, RepeatStart, SendStop, SendLegacyStop, Send
  <2> QED
    BY <1>1, <2>1 DEF IInv, TypeOK
<1>5. profile.timerId = req[r].timerId => Existing.session.timerId = req[r].timerId
  BY DEF Existing, Running
<1>6. ASSUME NEW q \in Requests, ReadForStart(q)
      PROVE  NamesItsTimer(r)
  <2>1. q = r /\ req[r].kind = "start"
    BY <1>1, <1>2, <1>6 DEF ReadForStart, Proceed
  <2>2. \/ reply'[r] = Existing /\ profile.timerId = req[r].timerId
        \/ reply'[r] = Consumed(r)
    BY <1>1, <1>2, <1>6, <2>1 DEF ReadForStart, Proceed, Conflict
  <2>3. /\ Existing.outcome = "running" /\ Consumed(r).outcome = "consumed"
        /\ Consumed(r).operationId = req[r].timerId
    BY DEF Existing, Consumed
  <2> QED
    BY <1>5, <2>1, <2>2, <2>3 DEF NamesItsTimer
<1>7. ASSUME NEW q \in Requests, CasStart(q)
      PROVE  NamesItsTimer(r)
  <2>1. q = r /\ req[r].kind = "start"
        /\ reply'[r] = [outcome |-> "running", session |-> Started(r)]
    BY <1>1, <1>2, <1>7 DEF CasStart, IInv, Kinds
  <2> QED
    BY <2>1 DEF Started, NamesItsTimer
<1>8. ASSUME NEW q \in Requests, Classify(q)
      PROVE  NamesItsTimer(r)
  <2>1. q = r /\ req[r].kind = "start"
    BY <1>2, <1>8 DEF Classify, IInv, Kinds
  <2>2. \/ reply'[r] = Existing /\ profile.timerId = req[r].timerId
        \/ reply'[r] = Consumed(r)
    BY <1>1, <1>2, <1>8, <2>1 DEF Classify, Conflict
  <2>3. /\ Existing.outcome = "running" /\ Consumed(r).outcome = "consumed"
        /\ Consumed(r).operationId = req[r].timerId
    BY DEF Existing, Consumed
  <2> QED
    BY <1>5, <2>1, <2>2, <2>3 DEF NamesItsTimer
<1>9. ASSUME NEW q \in Requests, ReadForLegacyStop(q)
      PROVE  FALSE
  BY <1>1, <1>2, <1>9 DEF ReadForLegacyStop, Conflict
<1>10. ASSUME NEW q \in Requests, ReadForStop(q)
       PROVE  NamesItsTimer(r)
  <2>1. q = r /\ req[r].kind = "stop" /\ ReceiptMatches(r)
        /\ reply'[r] = [outcome |-> "stopped", session |-> profile.timerStopReceipt, changed |-> FALSE]
    BY <1>1, <1>2, <1>10 DEF ReadForStop, Proceed, Conflict
  <2> QED
    BY <2>1 DEF ReceiptMatches, NamesItsTimer
<1>11. ASSUME NEW q \in Requests, CasStop(q)
       PROVE  NamesItsTimer(r)
  <2>1. /\ q = r /\ pc[r] = "stopping" /\ req[r].kind = "stop"
        /\ reply'[r] = [outcome |-> "stopped", session |-> Stopped(r), changed |-> TRUE]
    BY <1>1, <1>2, <1>11 DEF CasStop, IInv, Kinds, Conflict
  <2>2. Stopped(r).timerId = req[r].timerId /\ Stopped(r).revision = req[r].revision
    BY <2>1 DEF Stopped, IInv, SeenBefore
  <2> QED
    BY <2>1, <2>2 DEF NamesItsTimer
<1>12. ASSUME NEW q \in Requests, Fail(q)
       PROVE  FALSE
  BY <1>1, <1>2, <1>12 DEF Fail
<1>13. ASSUME NEW q \in Requests, LandLate(q)
       PROVE  FALSE
  BY <1>2, <1>13 DEF LandLate
<1> QED
  BY <1>3, <1>4, <1>6, <1>7, <1>8, <1>9, <1>10, <1>11, <1>12, <1>13 DEF Next, Progress

\* No request is answered with a timer it did not name.
THEOREM AnswersNamed == Spec => AnswersNameTheRequest
<1>1. IInv /\ [Next]_vars => [\A r \in Requests : NamesItsTimer(r)]_vars
  BY StepNamed
<1> QED
  BY <1>1, Invariance, PTL DEF Spec, AnswersNameTheRequest
==============================================================================
