--------------------------- MODULE TimerTransitions ---------------------------
(***************************************************************************)
(* The running timer of one user: startTimerAtomic and stopTimerAtomic of  *)
(* imports/api/users/server/timerTransitions.js, called by the REST routes *)
(* of server/timerRoutes.js and by the DDP method setTimer.                *)
(*                                                                         *)
(* Each transition reads the user document, decides, and writes it back    *)
(* with a compare-and-swap on what it read; requests interleave between    *)
(* the two.  Clients repeat a request whose answer they lost: a start      *)
(* under its operation id, for as long as the published replay window      *)
(* lasts, a stop under the timer id and revision it names.                 *)
(***************************************************************************)
EXTENDS Integers, FiniteSets

CONSTANTS
    Operations,   \* operation ids of starts; a running timer has one as its timerId
    Requests,     \* request slots
    None,         \* absent field
    Retention,    \* TIMER_START_REPLAY_RETENTION_MS
    Grace,        \* TIMER_START_HISTORY_GRACE_MS
    MaxHistory,   \* MAX_TIMER_START_HISTORY
    MaxRevision,  \* Number.MAX_SAFE_INTEGER
    Skew,         \* how far the clock of a browser is from the server's
    Delay,        \* how long a request may wait in the server
    MaxTime       \* bound on the clock

ASSUME TimerAssumption ==
    /\ {Grace, MaxHistory, Skew, Delay, MaxTime} \subseteq Nat
    /\ {Retention, MaxRevision} \subseteq Nat \ {0}
    /\ None \notin Int /\ None \notin Operations
    /\ None \notin [at: Nat, timestamp: Int \union {None}]

VARIABLES
    clock,     \* time on the server
    profile,   \* the timer fields of user.profile
    pc,        \* pc[r]: where request r is
    req,       \* req[r]: what it asks for
    seen,      \* seen[r]: the profile as it read it
    reply,     \* reply[r]: what the last request of slot r was told, or None
    issued,    \* issued[o]: when a client first sent operation o and the time it named
    sessions   \* history: every timer that ever ran, with its stop time or None

vars == <<clock, profile, pc, req, seen, reply, issued, sessions>>

Revisions == 0..MaxRevision \union {None}
TimerIds == Operations \union {None}
Times == Int \union {None}

\* Entries of profile.timerStartHistory.
Entry == [operationId: Operations, expiresAt: Int]

\* A timer with the revision it ran under, and the receipt of one that was stopped.
Session == [timerId: TimerIds, revision: Revisions, startTime: Int, stoppedAt: Times]
Receipt == [timerId: TimerIds, revision: Revisions, startTime: Int, stoppedAt: Int]

Profile == [timer: Times, timerId: TimerIds, timerRevision: Revisions,
            timerStartHistory: SUBSET Entry, timerStopReceipt: Receipt \union {None}]

Request == [kind: {"start", "stop", "legacyStop"}, timerId: TimerIds, revision: Revisions,
            instant: Times, sentAt: Int]

Pcs == {"idle", "sent", "starting", "stopping", "classify",
        "lost"}   \* the request failed with its write on the way

Reply == [outcome: {"running"}, session: Session]
         \union [outcome: {"stopped"}, session: Receipt, changed: BOOLEAN]
         \union [outcome: {"consumed"}, operationId: Operations]
         \union {None}

TypeOK ==
    /\ clock \in Nat
    /\ profile \in Profile
    /\ pc \in [Requests -> Pcs]
    /\ req \in [Requests -> Request \union {None}]
    /\ \A r \in Requests : pc[r] # "idle" => req[r] \in Request
    /\ seen \in [Requests -> Profile \union {None}]
    /\ \A r \in Requests : pc[r] \in {"starting", "stopping", "lost"} => seen[r] \in Profile
    /\ reply \in [Requests -> Reply]
    /\ issued \in [Operations -> [at: Nat, timestamp: Times] \union {None}]
    /\ sessions \subseteq Session

\* A user who never started a timer, or one with a timer of a version that
\* stored neither a timer id nor a revision.
Init ==
    /\ clock = 0
    /\ \E started \in {None, 0} :
           /\ profile = [timer |-> started, timerId |-> None, timerRevision |-> None,
                         timerStartHistory |-> {}, timerStopReceipt |-> None]
           /\ sessions = {s \in {[timerId |-> None, revision |-> None, startTime |-> 0,
                                  stoppedAt |-> None]} : started # None}
    /\ pc = [r \in Requests |-> "idle"]
    /\ req = [r \in Requests |-> None]
    /\ seen = [r \in Requests |-> None]
    /\ reply = [r \in Requests |-> None]
    /\ issued = [o \in Operations |-> None]

activeTimer == profile.timer # None

CanAdvance == profile.timerRevision # MaxRevision

\* The revision as a number: an absent one counts as 0.
Number(revision) == IF revision = None THEN 0 ELSE revision

Running == [timerId |-> profile.timerId, revision |-> profile.timerRevision,
            startTime |-> profile.timer, stoppedAt |-> None]

Answer(r, message) ==
    /\ pc' = [pc EXCEPT ![r] = "idle"]
    /\ req' = [req EXCEPT ![r] = None]
    /\ seen' = [seen EXCEPT ![r] = None]
    /\ reply' = [reply EXCEPT ![r] = message]

Existing == [outcome |-> "running", session |-> Running]
Consumed(r) == [outcome |-> "consumed", operationId |-> req[r].timerId]
Conflict == None  \* refused, and nothing is promised

Proceed(r, label) ==
    /\ pc' = [pc EXCEPT ![r] = label]
    /\ seen' = [seen EXCEPT ![r] = profile]
    /\ UNCHANGED reply

------------------------------------------------------------------------------
\* Clients

Send(r, kind, timerId, revision, instant) ==
    /\ pc[r] = "idle"
    /\ pc' = [pc EXCEPT ![r] = "sent"]
    /\ req' = [req EXCEPT ![r] = [kind |-> kind, timerId |-> timerId, revision |-> revision,
                                  instant |-> instant, sentAt |-> clock]]
    /\ reply' = [reply EXCEPT ![r] = None]
    /\ UNCHANGED <<clock, profile, seen, sessions>>

\* Over REST the server takes the time, over DDP the browser names it.
SendStart(r, operation, timestamp) ==
    /\ issued[operation] = None
    /\ issued' = [issued EXCEPT ![operation] = [at |-> clock, timestamp |-> timestamp]]
    /\ Send(r, "start", operation, None, timestamp)

\* A client repeats the call as it was, and only inside the replay window.
RepeatStart(r, operation) ==
    /\ issued[operation] # None
    /\ clock < issued[operation].at + Retention
    /\ Send(r, "start", operation, None, issued[operation].timestamp)
    /\ UNCHANGED issued

\* A client stops a timer it was told of, or (older ones) whichever is running.
SendStop(r, session) ==
    /\ Send(r, "stop", session.timerId, session.revision, None)
    /\ UNCHANGED issued

SendLegacyStop(r) ==
    /\ Send(r, "legacyStop", None, None, None)
    /\ UNCHANGED issued

\* No request waits longer than Delay.
Tick ==
    /\ clock < MaxTime
    /\ \A r \in Requests : pc[r] \notin {"idle", "lost"} => clock < req[r].sentAt + Delay
    /\ clock' = clock + 1
    /\ UNCHANGED <<profile, pc, req, seen, reply, issued, sessions>>

------------------------------------------------------------------------------
\* startTimerAtomic

Instant(r) == IF req[r].instant = None THEN clock ELSE req[r].instant

\* Mutant: an entry goes when the replay window ends.
RetainedWithoutGrace(history, instant) == {e \in history : e.expiresAt - Grace > instant}

retainedTimerStartHistory(history, instant) == {e \in history : e.expiresAt > instant}

IsConsumed(history, operation) == \E e \in history : e.operationId = operation

ReadForStart(r) ==
    LET instant == Instant(r)
        retained == retainedTimerStartHistory(profile.timerStartHistory, instant)
    IN  /\ pc[r] = "sent" /\ req[r].kind = "start"
        /\ \/ /\ activeTimer
              /\ Answer(r, IF profile.timerId = req[r].timerId THEN Existing ELSE Conflict)
           \/ /\ ~activeTimer
              /\ CanAdvance
              /\ IsConsumed(retained, req[r].timerId)
              /\ Answer(r, Consumed(r))
           \/ /\ ~activeTimer
              /\ \/ ~CanAdvance
                 \/ /\ ~IsConsumed(retained, req[r].timerId)
                    /\ Cardinality(retained) >= MaxHistory
              /\ Answer(r, Conflict)
           \/ /\ ~activeTimer
              /\ CanAdvance
              /\ ~IsConsumed(retained, req[r].timerId)
              /\ Cardinality(retained) < MaxHistory
              /\ Proceed(r, "starting")
              /\ req' = [req EXCEPT ![r].instant = instant]
        /\ UNCHANGED <<clock, profile, issued, sessions>>

\* timerSnapshotSelector and, for a start, timerStartSnapshotSelector.
Snapshot(r) == /\ profile.timer = seen[r].timer
               /\ profile.timerId = seen[r].timerId
               /\ profile.timerRevision = seen[r].timerRevision

\* Mutant of StartSnapshot: the write names the user alone.
StartUnconditionally(r) == TRUE

StartSnapshot(r) == /\ Snapshot(r)
                    /\ profile.timerStartHistory = seen[r].timerStartHistory

Started(r) == [timerId |-> req[r].timerId, revision |-> Number(seen[r].timerRevision) + 1,
               startTime |-> req[r].instant, stoppedAt |-> None]

WriteStart(r) ==
    LET entry == [operationId |-> req[r].timerId,
                  expiresAt |-> req[r].instant + Retention + Grace]
        retained == retainedTimerStartHistory(seen[r].timerStartHistory, req[r].instant)
    IN  /\ profile' = [profile EXCEPT
                           !.timer = req[r].instant,
                           !.timerId = req[r].timerId,
                           !.timerRevision = Number(@) + 1,
                           !.timerStartHistory = retained \union {entry}]
        /\ sessions' = sessions \union {Running'}

CasStart(r) ==
    /\ pc[r] = "starting"
    /\ IF StartSnapshot(r)
       THEN /\ WriteStart(r)
            /\ Answer(r, [outcome |-> "running", session |-> Started(r)])
       ELSE /\ pc' = [pc EXCEPT ![r] = "classify"]
            /\ UNCHANGED <<profile, sessions, req, seen, reply>>
    /\ UNCHANGED <<clock, issued>>

\* The swap failed: look again for what became of the operation.
Classify(r) ==
    LET retained == retainedTimerStartHistory(profile.timerStartHistory, req[r].instant)
    IN  /\ pc[r] = "classify"
        /\ Answer(r, CASE activeTimer /\ profile.timerId = req[r].timerId -> Existing
                       [] (~activeTimer \/ profile.timerId # req[r].timerId)
                             /\ IsConsumed(retained, req[r].timerId) -> Consumed(r)
                       [] OTHER -> Conflict)
        /\ UNCHANGED <<clock, profile, issued, sessions>>

------------------------------------------------------------------------------
\* stopTimerAtomic

\* The read an older client leaves to the server, or to setTimer.
ReadForLegacyStop(r) ==
    /\ pc[r] = "sent" /\ req[r].kind = "legacyStop"
    /\ IF activeTimer
       THEN /\ req' = [req EXCEPT ![r].kind = "stop", ![r].timerId = profile.timerId,
                                  ![r].revision = profile.timerRevision]
            /\ UNCHANGED <<pc, seen, reply>>
       ELSE Answer(r, Conflict)
    /\ UNCHANGED <<clock, profile, issued, sessions>>

\* Mutant of ReceiptMatches: any receipt will do.
ReceiptExists(r) == profile.timerStopReceipt # None

\* stoppedTimerReceipt
ReceiptMatches(r) ==
    /\ profile.timerStopReceipt # None
    /\ profile.timerStopReceipt.timerId = req[r].timerId
    /\ profile.timerStopReceipt.revision = req[r].revision

ReadForStop(r) ==
    /\ pc[r] = "sent" /\ req[r].kind = "stop"
    /\ \/ /\ ~activeTimer
          /\ Answer(r, IF ReceiptMatches(r)
                       THEN [outcome |-> "stopped", session |-> profile.timerStopReceipt,
                             changed |-> FALSE]
                       ELSE Conflict)
       \/ /\ activeTimer
          /\ \/ profile.timerRevision # req[r].revision
             \/ profile.timerId # req[r].timerId
             \/ ~CanAdvance
          /\ Answer(r, Conflict)
       \/ /\ activeTimer
          /\ profile.timerRevision = req[r].revision
          /\ profile.timerId = req[r].timerId
          /\ CanAdvance
          /\ Proceed(r, "stopping")
          /\ req' = [req EXCEPT ![r].instant = clock]
    /\ UNCHANGED <<clock, profile, issued, sessions>>

\* Mutant: the receipt takes the timer as it was read, without its end.
StoppedUntimed(r) == [timerId |-> seen[r].timerId, revision |-> seen[r].timerRevision,
                      startTime |-> seen[r].timer, stoppedAt |-> None]

Stopped(r) == [timerId |-> seen[r].timerId, revision |-> seen[r].timerRevision,
               startTime |-> seen[r].timer, stoppedAt |-> req[r].instant]

\* Mutant of WriteStop: the receipt is left for a write of its own.
WriteStopAlone(r) ==
    /\ profile' = [profile EXCEPT !.timer = None, !.timerId = None,
                                  !.timerRevision = Number(@) + 1]
    /\ sessions' = (sessions \ {Running})
                      \union {[Running EXCEPT !.stoppedAt = req[r].instant]}

WriteStop(r) ==
    /\ profile' = [profile EXCEPT !.timer = None, !.timerId = None,
                                  !.timerRevision = Number(@) + 1,
                                  !.timerStopReceipt = Stopped(r)]
    /\ sessions' = (sessions \ {Running})
                      \union {[Running EXCEPT !.stoppedAt = req[r].instant]}

CasStop(r) ==
    /\ pc[r] = "stopping"
    /\ IF Snapshot(r)
       THEN /\ WriteStop(r)
            /\ Answer(r, [outcome |-> "stopped", session |-> Stopped(r), changed |-> TRUE])
       ELSE /\ Answer(r, Conflict)
            /\ UNCHANGED <<profile, sessions>>
    /\ UNCHANGED <<clock, issued>>

------------------------------------------------------------------------------
\* The process dies or the driver gives up; a write already sent may still land.
Fail(r) ==
    /\ pc[r] \notin {"idle", "lost"}
    /\ IF pc[r] \in {"starting", "stopping"}
       THEN pc' = [pc EXCEPT ![r] = "lost"] /\ UNCHANGED <<req, seen, reply>>
       ELSE Answer(r, None)
    /\ UNCHANGED <<clock, profile, issued, sessions>>

LandLate(r) ==
    /\ pc[r] = "lost"
    /\ \/ req[r].kind = "start" /\ StartSnapshot(r) /\ WriteStart(r)
       \/ req[r].kind = "stop" /\ Snapshot(r) /\ WriteStop(r)
       \/ UNCHANGED <<profile, sessions>>
    /\ Answer(r, None)
    /\ UNCHANGED <<clock, issued>>

Arrive(r) ==
    \/ \E operation \in Operations,
          timestamp \in (clock - Skew)..(clock + Skew) \union {None} :
              SendStart(r, operation, timestamp)
    \/ \E operation \in Operations : RepeatStart(r, operation)
    \/ \E session \in sessions : SendStop(r, session)
    \/ SendLegacyStop(r)

Progress(r) ==
    \/ ReadForStart(r)
    \/ CasStart(r)
    \/ Classify(r)
    \/ ReadForLegacyStop(r)
    \/ ReadForStop(r)
    \/ CasStop(r)
    \/ Fail(r)
    \/ LandLate(r)

Next == Tick \/ \E r \in Requests : Arrive(r) \/ Progress(r)

Spec == Init /\ [][Next]_vars

------------------------------------------------------------------------------
\* An operation "never starts a second timer" (v6-endpoint-guide.md:129): the
\* timers that ran have different operation ids, however often the start was
\* repeated and whatever other starts pruned from the history meanwhile.
StartsOnce ==
    \A s, t \in sessions : s.timerId = t.timerId /\ s.timerId # None => s = t

\* The grace period outlasts twice the clock error and the longest request.
GraceCovers == Grace >= 2 * Skew + Delay

\* What a reply says is true of these timers.
HasHappened(message, timers) ==
    CASE message.outcome = "running" ->
             \E s \in timers : /\ s.timerId = message.session.timerId
                                 /\ s.revision = message.session.revision
                                 /\ s.startTime = message.session.startTime
      [] message.outcome = "stopped" -> message.session \in timers
      [] message.outcome = "consumed" ->
             \E s \in timers : s.timerId = message.operationId

\* A client is told only of timers that ran as it is told: the start's answer
\* names the timer's own start time and revision, the stop's (a replayed one
\* too) the times of the very timer, and a consumed operation did start.
RepliesTrue == \A r \in Requests : reply[r] # None => HasHappened(reply[r], sessions)

\* While no timer runs, the receipt is that of the timer that ran last, so that
\* a client that lost the answer to its stop can ask again.
ReceiptIsOfLastTimer ==
    ~activeTimer /\ sessions # {} =>
        /\ profile.timerStopReceipt \in sessions
        /\ \A s \in sessions :
               Number(s.revision) <= Number(profile.timerStopReceipt.revision)

\* The answer of this step, if there is one, is about the timer r names.
NamesItsTimer(r) ==
    pc[r] \in {"sent", "starting", "stopping", "classify"} /\ reply'[r] # None =>
        CASE reply'[r].outcome = "running" ->
                 /\ req[r].kind = "start"
                 /\ reply'[r].session.timerId = req[r].timerId
          [] reply'[r].outcome = "stopped" ->
                 /\ req[r].kind = "stop"
                 /\ reply'[r].session.timerId = req[r].timerId
                 /\ reply'[r].session.revision = req[r].revision
          [] reply'[r].outcome = "consumed" ->
                 /\ req[r].kind = "start"
                 /\ reply'[r].operationId = req[r].timerId

\* A request is answered with the timer it names: a start never adopts the timer
\* of another operation, and a stop ends or recovers the one it was sent for.
AnswersNameTheRequest == [][\A r \in Requests : NamesItsTimer(r)]_vars
==============================================================================
