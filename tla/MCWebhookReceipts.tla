-------------------------- MODULE MCWebhookReceipts --------------------------
(***************************************************************************)
(* Two events of one interface, the first of them sent with two bodies,    *)
(* delivered to three workers under a mapping that may change once.        *)
(***************************************************************************)
EXTENDS WebhookReceipts, TLC

CONSTANTS p, q, r1, r2, r3

\* Body p completes; body q revokes under one mapping and is nothing to the other.
MCInitial == [rules |-> (p :> "complete" @@ q :> "revoke"), verificationPeriod |-> 1]

MCConfigurations == {[rules |-> (p :> "revoke" @@ q :> None), verificationPeriod |-> 2]}

E(i, id) == [interfaceId |-> i, eventId |-> id]

MCDeliveries ==
    {[event |-> E(1, 1), payload |-> p], [event |-> E(1, 1), payload |-> q],
     [event |-> E(1, 2), payload |-> q]}

Symmetry == Permutations({r1, r2, r3})
==============================================================================
