----------------------------- MODULE GetpaidCore -----------------------------
(* The part of getpaid_core this plugin relies on.  The library itself is not  *)
(* in the repository: every definition is the behaviour the plugin's code,     *)
(* tests and research notes show of it.                                        *)
(*                                                                             *)
(* A payment is a record with at least the fields                              *)
(*   status             the payment's FSM state                                *)
(*   provider_data      the JSON dictionary, a function whose domain is the    *)
(*                      set of keys it holds                                   *)
(*   applied_event_ids  the event ids whose updates were applied               *)

\* The empty JSON dictionary.
EmptyData == [k \in {} |-> k]

\* Core merges an update's provider_data key by key, never inside a value.
ShallowMerge(data, patch) ==
    [k \in DOMAIN data \cup DOMAIN patch |->
        IF k \in DOMAIN patch THEN patch[k] ELSE data[k]]

\* The effect of a refund event on the FSM.  "PAID" stands for every settled
\* state a payment returns to when no refund attempt is open.
AfterRefundEvent(payment_event) ==
    IF payment_event = "REFUND_REQUESTED" THEN "REFUND_STARTED" ELSE "PAID"

\* apply_payment_update() of an update without a provider_event_id.
ApplyRefundEvent(payment, payment_event, patch) ==
    [payment EXCEPT !.status = AfterRefundEvent(payment_event),
                    !.provider_data = ShallowMerge(@, patch)]

\* apply_payment_update() of an update a webhook was mapped to: a provider
\* event that was applied before is skipped entirely.
ApplyRefundUpdate(payment, update) ==
    IF update.provider_event_id \in payment.applied_event_ids
    THEN payment
    ELSE [ApplyRefundEvent(payment, update.payment_event, update.provider_data)
            EXCEPT !.applied_event_ids = @ \cup {update.provider_event_id}]
=============================================================================
