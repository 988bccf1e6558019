------------------------------ MODULE MCCliTimer ------------------------------
(***************************************************************************)
(* TLC instance of CliTimer.  A behaviour looks either at devices alone,   *)
(* with every clock and every interleaving of the server's steps, or at    *)
(* the client and a device.  Then time stands still, the server's          *)
(* transitions, which the first kind takes apart, run at one go, and the   *)
(* device's requests are served at once.                                   *)
(***************************************************************************)
EXTENDS CliTimer, TLC

VARIABLE client   \* a behaviour with the command line client

MCInit == CliInit /\ client \in {b \in BOOLEAN : b => ~activeTimer}

\* A browser's clock is right, or off by Skew.
AtExtremes(r) ==
    req'[r].kind = "start" => req'[r].instant \in {None, clock - Skew, clock + Skew}

WithoutClient ==
    \/ Tick /\ UNCHANGED clientVars
    \/ \E r \in Requests : Serve(r) \/ (Device(r) /\ AtExtremes(r))

Settled(r) ==
    /\ pc[r] \notin {"starting", "stopping", "classify"}
    /\ cli[r] = None => pc[r] = "idle"

\* The device starts timers as the server's clock tells, and stops whichever runs.
DeviceCall(r) ==
    /\ Device(r)
    /\ req'[r].kind \in {"start", "legacyStop"} /\ req'[r].instant = None

\* Two timers and one draft, or one timer and two drafts.
Small ==
    \/ \E operation \in Operations : issued[operation] = None /\ started[operation] = "unknown"
    \/ \E d \in Drafts : drafts[d] = None

WithClient ==
    /\ \E r \in Requests :
           \/ (Respond(r) \/ (cli[r] # None /\ Break(r))) /\ \A q \in Requests \ {r} : Settled(q)
           \/ (Client(r) \/ DeviceCall(r)) /\ \A q \in Requests : Settled(q)
    /\ Small'

MCNext ==
    \/ ~client /\ WithoutClient /\ UNCHANGED client
    \/ client /\ WithClient /\ UNCHANGED client

MCSpec == MCInit /\ [][MCNext]_<<cliVars, client>>

Symmetry == Permutations(Operations) \union Permutations(Requests) \union Permutations(Drafts)
==============================================================================
