------------------------------- MODULE CliTimer -------------------------------
(***************************************************************************)
(* The command line client's timer commands (titra_cli/timer.py) composed  *)
(* with the server's timer of TimerTransitions.                            *)
(*                                                                         *)
(* The client keeps three kinds of files that several processes share: the *)
(* pending start, the active timer and record drafts.  A file is replaced  *)
(* atomically; between two files, a file and a request, or a request and   *)
(* its answer a process may be killed, and other processes may run.  What  *)
(* a process asks of the server goes through a request slot of             *)
(* TimerTransitions, where it lives on when the process is gone.  Browsers *)
(* and other devices use the remaining slots.                              *)
(***************************************************************************)
EXTENDS TimerTransitions

CONSTANT Drafts     \* ids of record drafts

VARIABLES
    pendingStart,  \* the pending-start file: the operation it journals, or None
    activeFile,    \* the active-timer file: the timer it tracks, or {}
    drafts,        \* drafts[d]: the draft file, or None
    cli,           \* cli[r]: the client process that uses slot r, or None
    started        \* history: what the client knows of the operation ids it made

filesVars == <<pendingStart, activeFile, drafts>>
clientVars == <<filesVars, cli, started>>
cliVars == <<vars, clientVars>>

\* "unheard": its request failed without an answer; "gone": the process ended
\* while its request was on the way.
Steps == {"post", "posted", "unheard", "save", "clear",
          "track", "create", "journal", "stop", "stopping", "recovering", "untrack", "gone"}

\* fresh: this process reserved the operation (newly_reserved);
\* startTime: that of the snapshot its stop is guarded by.
Process == [at: Steps, timerId: Operations, revision: Revisions, startTime: Times,
            fresh: BOOLEAN, draft: Drafts \union {None}]

\* The draft of a stop: without a request, with the request journaled, with an
\* unknown outcome, with the interval, or set aside for a replayed receipt.
Draft == [status: {"pending_stop"}, timerId: Operations]
         \union [status: {"stopping", "outcome_unknown", "discarded"}, timerId: Operations,
                 revision: Revisions]
         \union [status: {"pending"}, interval: Receipt]

ASSUME CliAssumption ==
    /\ None \notin Drafts \union Draft \union Process
    /\ None \notin [outcome: {"running"}, session: Session]

\* An operation is reserved; its reservation was refused and cleared; or it is settled:
\* the active-timer file has named it, or a second process replayed it before the first
\* had handled its answer, and the two may undo each other's files.
Knowledge == {"unknown", "reserved", "refused", "settled"}

CliTypeOK ==
    /\ pendingStart \in Operations \union {None}
    /\ activeFile \in SUBSET Operations /\ Cardinality(activeFile) <= 1
    /\ drafts \in [Drafts -> Draft \union {None}]
    /\ cli \in [Requests -> Process \union {None}]
    /\ \A r \in Requests : cli[r] # None /\ cli[r].at = "gone" => pc[r] # "idle"
    /\ started \in [Operations -> Knowledge]

CliInit ==
    /\ Init
    /\ pendingStart = None
    /\ activeFile = {}
    /\ drafts = [d \in Drafts |-> None]
    /\ cli = [r \in Requests |-> None]
    /\ started = [o \in Operations |-> "unknown"]

------------------------------------------------------------------------------
\* Processes

Free(r) == cli[r] = None /\ pc[r] = "idle"

At(r, step) == cli[r] # None /\ cli[r].at = step

Launch(r, process) == Free(r) /\ cli' = [cli EXCEPT ![r] = process]

Goes(r, step) == cli' = [cli EXCEPT ![r].at = step]

\* The process ends; its slot is free when no request is left in it.
Ended(r) == [cli EXCEPT ![r] = IF pc[r] = "idle" THEN None ELSE [@ EXCEPT !.at = "gone"]]

\* It is killed, or gives up with an error and changes nothing.
Quit(r) ==
    /\ cli[r] # None /\ cli[r].at # "gone"
    /\ cli' = Ended(r)
    /\ UNCHANGED <<vars, filesVars, started>>

Answered(r) == pc[r] = "idle" /\ reply[r] # None

Starter(operation, step, fresh) ==
    [at |-> step, timerId |-> operation, revision |-> None, startTime |-> None,
     fresh |-> fresh, draft |-> None]

------------------------------------------------------------------------------
\* start, recover-start, status and adopt

\* start journals a new operation id unless another start is pending.
Reserve(r, operation) ==
    /\ pendingStart = None
    /\ issued[operation] = None /\ started[operation] = "unknown"
    /\ Launch(r, Starter(operation, "post", TRUE))
    /\ pendingStart' = operation
    /\ started' = [started EXCEPT ![operation] = "reserved"]
    /\ UNCHANGED <<vars, activeFile, drafts>>

\* The process that reserved the operation is at its first attempt.
FirstAttempt(operation) ==
    \E q \in Requests : /\ cli[q] # None /\ cli[q].at # "gone"
                        /\ cli[q].fresh /\ cli[q].timerId = operation

\* start once more, or recover-start after it saw no timer.
Resume(r) ==
    /\ pendingStart # None
    /\ Launch(r, Starter(pendingStart, "post", FALSE))
    /\ started' = [started EXCEPT ![pendingStart] =
                       IF @ = "reserved" /\ FirstAttempt(pendingStart) THEN "settled" ELSE @]
    /\ UNCHANGED <<vars, filesVars>>

\* recover-start and status find the pending operation running; adopt takes over
\* whichever timer runs.
Find(r) ==
    /\ activeTimer
    /\ profile.timerId # None
    /\ Launch(r, Starter(profile.timerId, "save", FALSE))
    /\ UNCHANGED <<vars, filesVars, started>>

\* timer_start; a replay is sent inside the client's own, shorter, window.
PostStart(r) ==
    /\ At(r, "post")
    /\ SendStart(r, cli[r].timerId, None) \/ RepeatStart(r, cli[r].timerId)
    /\ Goes(r, "posted")
    /\ UNCHANGED <<filesVars, started>>

\* After a success, and after a lost answer, the timer is looked up.
FindStarted(r) ==
    /\ At(r, "posted") \/ At(r, "unheard")
    /\ Answered(r) => reply[r].outcome = "running"
    /\ activeTimer /\ profile.timerId = cli[r].timerId
    /\ Goes(r, "save")
    /\ UNCHANGED <<vars, filesVars, started>>

\* A refusal of the first attempt, or the news that the operation was consumed.
Resolves(r) == reply[r] = None => cli[r].fresh

Refused(r) ==
    /\ At(r, "posted")
    /\ pc[r] = "idle"
    /\ reply[r] # None => reply[r].outcome = "consumed"
    /\ Resolves(r)
    /\ Goes(r, "clear")
    /\ UNCHANGED <<vars, filesVars, started>>

\* Mutant of SaveActive: the pending start is cleared first, and then lost.
SaveActiveLast(r) ==
    /\ At(r, "save")
    /\ pendingStart' = IF pendingStart = cli[r].timerId THEN None ELSE pendingStart
    /\ Goes(r, "clear")
    /\ UNCHANGED <<vars, activeFile, drafts, started>>

\* _save_server_timer writes what was observed, which may be over by now.  (A timer
\* that was adopted is not pending, and ClearPending then changes nothing.)
SaveActive(r) ==
    /\ At(r, "save")
    /\ activeFile' = {cli[r].timerId}
    /\ started' = [started EXCEPT ![cli[r].timerId] =
                       IF @ = "unknown" THEN @ ELSE "settled"]
    /\ Goes(r, "clear")
    /\ UNCHANGED <<vars, pendingStart, drafts>>

\* clear_pending_timer_start compares before it deletes.
ClearPending(r) ==
    /\ At(r, "clear")
    /\ pendingStart' = IF pendingStart = cli[r].timerId THEN None ELSE pendingStart
    /\ started' = [started EXCEPT ![cli[r].timerId] =
                       IF @ = "reserved" /\ reply[r] = None THEN "refused" ELSE @]
    /\ cli' = Ended(r)
    /\ UNCHANGED <<vars, activeFile, drafts>>

------------------------------------------------------------------------------
\* stop and cancel

\* capture_stop takes the server's snapshot of the tracked, or of a just adopted, timer.
CaptureStop(r) ==
    /\ activeTimer
    /\ profile.timerId # None
    /\ activeFile \subseteq {profile.timerId}
    /\ Launch(r, [at |-> "track", timerId |-> profile.timerId,
                  revision |-> profile.timerRevision, startTime |-> profile.timer,
                  fresh |-> FALSE, draft |-> None])
    /\ UNCHANGED <<vars, filesVars, started>>

\* save_active_timer writes back the timer as it was read.
MarkActive(r) ==
    /\ At(r, "track")
    /\ activeFile' = {cli[r].timerId}
    /\ Goes(r, "create")
    /\ UNCHANGED <<vars, pendingStart, drafts, started>>

CreateDraft(r, d) ==
    /\ At(r, "create")
    /\ drafts[d] = None
    /\ drafts' = [drafts EXCEPT ![d] = [status |-> "pending_stop", timerId |-> cli[r].timerId]]
    /\ cli' = [cli EXCEPT ![r].at = "journal", ![r].draft = d]
    /\ UNCHANGED <<vars, pendingStart, activeFile, started>>

Write(r, draft) == drafts' = [drafts EXCEPT ![cli[r].draft] = draft]

StopRequest(r, status) ==
    [status |-> status, timerId |-> cli[r].timerId, revision |-> cli[r].revision]

\* Mutant of JournalStop: the stop is sent under the draft as it was created.
JournalNothing(r) ==
    /\ At(r, "journal")
    /\ Goes(r, "stop")
    /\ UNCHANGED <<vars, filesVars, started>>

\* The exact request is on disk before it is sent.
JournalStop(r) ==
    /\ At(r, "journal")
    /\ Write(r, StopRequest(r, "stopping"))
    /\ Goes(r, "stop")
    /\ UNCHANGED <<vars, pendingStart, activeFile, started>>

PostStop(r) ==
    /\ At(r, "stop")
    /\ SendStop(r, [timerId |-> cli[r].timerId, revision |-> cli[r].revision])
    /\ Goes(r, "stopping")
    /\ UNCHANGED <<filesVars, started>>

\* recover-stop repeats the journaled request under the draft's lock.  It knows
\* the timer and the revision; the snapshot it passes has no start time.
RecoverStop(r, d) ==
    /\ drafts[d] # None /\ drafts[d].status \in {"stopping", "outcome_unknown"}
    /\ \A q \in Requests : cli[q] # None /\ cli[q].draft = d => cli[q].at = "gone"
    /\ Launch(r, [at |-> "recovering", timerId |-> drafts[d].timerId,
                  revision |-> drafts[d].revision, startTime |-> None,
                  fresh |-> FALSE, draft |-> d])
    /\ SendStop(r, [timerId |-> drafts[d].timerId, revision |-> drafts[d].revision])
    /\ UNCHANGED <<filesVars, started>>

\* timer_stop_snapshot believes an answer that agrees with the snapshot.
Believed(r) == reply[r].session.startTime = cli[r].startTime

\* The answer does not come, or is not believed; a recovery leaves the draft as it is.
LoseStopAnswer(r) ==
    /\ At(r, "stopping")
    /\ Answered(r) => ~Believed(r)
    /\ Write(r, StopRequest(r, "outcome_unknown"))
    /\ cli' = Ended(r)
    /\ UNCHANGED <<vars, pendingStart, activeFile, started>>

\* Mutant of Fresh: whoever is told of the interval keeps it.
AnyReceipt(r) == TRUE

\* A replayed receipt is for a recovery, not for a new stop.
Fresh(r) == reply[r].changed \/ At(r, "recovering")

\* Mutant of Interval: the timer as the snapshot had it, without its end.
IntervalAsCaptured(r) == [timerId |-> cli[r].timerId, revision |-> cli[r].revision,
                          startTime |-> cli[r].startTime, stoppedAt |-> None]

Interval(r) == reply[r].session

\* _finalize_stopped_timer
FinalizeStop(r) ==
    /\ At(r, "stopping") \/ At(r, "recovering")
    /\ Answered(r) /\ Believed(r)
    /\ Write(r, IF Fresh(r) THEN [status |-> "pending", interval |-> Interval(r)]
                            ELSE StopRequest(r, "discarded"))
    /\ Goes(r, "untrack")
    /\ UNCHANGED <<vars, pendingStart, activeFile, started>>

\* clear_active_timer compares nothing.
Untrack(r) ==
    /\ At(r, "untrack")
    /\ activeFile' = {}
    /\ cli' = Ended(r)
    /\ UNCHANGED <<vars, pendingStart, drafts, started>>

------------------------------------------------------------------------------
\* The server and the devices

Released(r) == IF At(r, "gone") /\ pc'[r] = "idle" THEN None ELSE cli[r]

Respond(r) ==
    /\ \/ ReadForStart(r) \/ CasStart(r) \/ Classify(r)
       \/ ReadForLegacyStop(r) \/ ReadForStop(r) \/ CasStop(r)
    /\ cli' = [cli EXCEPT ![r] = Released(r)]
    /\ UNCHANGED <<filesVars, started>>

Break(r) ==
    /\ Fail(r) \/ LandLate(r)
    /\ cli' = [cli EXCEPT ![r] =
                   IF At(r, "posted") THEN [@ EXCEPT !.at = "unheard"] ELSE Released(r)]
    /\ UNCHANGED <<filesVars, started>>

Serve(r) == Respond(r) \/ Break(r)

\* Nobody else knows the client's operation ids.
Device(r) ==
    /\ cli[r] = None
    /\ Arrive(r)
    /\ req'[r].kind = "start" => started[req'[r].timerId] = "unknown"
    /\ UNCHANGED clientVars

Client(r) ==
    \/ \E operation \in Operations : Reserve(r, operation)
    \/ Resume(r)
    \/ Find(r)
    \/ PostStart(r)
    \/ FindStarted(r)
    \/ Refused(r)
    \/ SaveActive(r)
    \/ ClearPending(r)
    \/ CaptureStop(r)
    \/ MarkActive(r)
    \/ \E d \in Drafts : CreateDraft(r, d) \/ RecoverStop(r, d)
    \/ JournalStop(r)
    \/ PostStop(r)
    \/ LoseStopAnswer(r)
    \/ FinalizeStop(r)
    \/ Untrack(r)
    \/ Quit(r)

CliNext ==
    \/ Tick /\ UNCHANGED clientVars
    \/ \E r \in Requests : Serve(r) \/ Device(r) \/ Client(r)

CliSpec == CliInit /\ [][CliNext]_cliVars

------------------------------------------------------------------------------
\* A timer that runs under an operation id of the client's is still in its
\* pending-start file unless the active-timer file has named it, however late the
\* start took effect and whoever was killed meanwhile; and a start refused at its
\* first attempt "cannot later commit" (timer.py:477), unless another process
\* was replaying it.
StartIsRemembered ==
    activeTimer /\ profile.timerId # None =>
        CASE started[profile.timerId] = "reserved" -> pendingStart = profile.timerId
          [] started[profile.timerId] = "refused" -> FALSE
          [] OTHER -> TRUE

\* Slot r carries a stop of the client's, and it takes effect.
StopsForClient(r) ==
    /\ cli[r] # None
    /\ req[r] # None /\ req[r].kind = "stop"
    /\ pc'[r] # pc[r] /\ sessions' # sessions

\* When the server stops a timer for the client, a draft on disk names that timer
\* and its revision (docs/security.md:100-103), even if the request arrives long after
\* the process that sent it was killed: no stopped interval goes without a trace.
StopsAreJournaled ==
    [][\A r \in Requests : StopsForClient(r) =>
           \E d \in Drafts :
               /\ drafts'[d] # None /\ drafts'[d].status \in {"stopping", "outcome_unknown"}
               /\ drafts'[d].timerId = req[r].timerId
               /\ drafts'[d].revision = req[r].revision]_cliVars

\* The drafts that can be submitted hold intervals that timers really ran for, and
\* no two of them the same one (docs/commands.md:117: "concurrent callers cannot
\* each prepare the same interval").
IntervalsDraftedOnce ==
    \A d \in Drafts : drafts[d] # None /\ drafts[d].status = "pending" =>
        /\ drafts[d].interval \in sessions
        /\ \A e \in Drafts \ {d} : drafts[e] # drafts[d]

\* docs/usage.md:283: "recover-stop ...; the server returns the bounded stop
\* receipt": the client accepts the answer that its recovery asked for.
RecoveryIsBelieved ==
    \A r \in Requests :
        At(r, "recovering") /\ Answered(r) => Believed(r)
==============================================================================
