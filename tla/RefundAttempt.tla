---------------------------- MODULE RefundAttempt ----------------------------
(* What a payment promises about its refunds, without Stripe, webhooks or      *)
(* provider_data: one attempt is open or not, one refund is the current one,   *)
(* and a refund known to be dead never acts on the attempt again - except that *)
(* the current one, canceled through the API, may still be confirmed.          *)
CONSTANT Refund

VARIABLES
    dead,     \* refunds known to have failed or been canceled
    current,  \* the current refund, at most one
    open      \* a refund attempt is open

vars == <<dead, current, open>>

Init ==
    /\ dead \subseteq Refund
    /\ current \in {{}} \cup {{r} : r \in Refund}
    /\ open = FALSE

\* A live refund is requested, or its request is reported.
Request(r) ==
    /\ r \notin dead
    /\ current' = {r}
    /\ open' = TRUE
    /\ UNCHANGED dead

\* A live refund succeeds.
Settle(r) ==
    /\ r \notin dead
    /\ current' = {r}
    /\ open' = FALSE
    /\ UNCHANGED dead

\* A live refund dies at Stripe.
Fail(r) ==
    /\ r \notin dead
    /\ dead' = dead \cup {r}
    /\ current' = {r}
    /\ open' = FALSE

\* The current refund is canceled through the API; the attempt closes now or
\* waits to be confirmed.
Cancel(r) ==
    /\ current = {r} /\ r \notin dead
    /\ dead' = dead \cup {r}
    /\ open' \in {open, FALSE}
    /\ UNCHANGED current

\* The cancellation of the current refund is confirmed.
Confirm(r) ==
    /\ current = {r} /\ r \in dead
    /\ open' = FALSE
    /\ UNCHANGED <<dead, current>>

Next ==
    \E r \in Refund : Request(r) \/ Settle(r) \/ Fail(r) \/ Cancel(r) \/ Confirm(r)

Spec == Init /\ [][Next]_vars
=============================================================================
