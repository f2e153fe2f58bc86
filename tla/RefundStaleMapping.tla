-------------------------- MODULE RefundStaleMapping --------------------------
(* RefundLifecycle with an adapter that does not serialize callbacks: a worker  *)
(* loads the payment and maps an event, other workers save their own updates,  *)
(* and the mapped update is applied afterwards.  Several workers may hold an   *)
(* update of the same payment, or of the same event, at once.  start_refund()   *)
(* is no critical section either: the refund exists at Stripe, and webhooks    *)
(* about it arrive, before its response is applied.                            *)
EXTENDS RefundLifecycle

CONSTANT MaxMapped  \* bound: updates mapped and not yet applied

ASSUME MaxMappedAssumption == MaxMapped \in Nat

VARIABLE mapped  \* updates handle_callback() and start_refund() returned,
                 \* waiting to be applied

staleVars == <<vars, mapped>>

\* handle_callback() on the payment as it is now; a dropped event leaves no
\* update behind.
MapCallback(e) ==
    /\ e \in events
    /\ Cardinality(mapped) < MaxMapped
    /\ ~IgnoresRefundEvent(payment.provider_data, e)
    /\ mapped' = mapped \cup {RefundUpdate(payment.provider_data, e)}
    /\ delivered' = delivered \cup {e}
    /\ UNCHANGED <<refund, events, payment>>

\* Stands for the provider_event_id an update of no webhook lacks.
NoEvent == [refund |-> 0, status |-> "none", n |-> 0]

\* start_refund(): Stripe creates the refund; its answer is an update too.
BeginStartRefund(r, status) ==
    /\ payment.status = "PAID"
    /\ Cardinality(mapped) < MaxMapped
    /\ Create(r, status)
    /\ mapped' = mapped \cup {[payment_event     |-> "REFUND_REQUESTED",
                               provider_event_id |-> NoEvent,
                               provider_data     |-> StartRefundPatch(r)]}
    /\ UNCHANGED <<delivered, payment>>

\* apply_payment_update() on the payment as it has become.
ApplyMapped(update) ==
    /\ payment' =
         IF update.provider_event_id = NoEvent
         THEN ApplyRefundEvent(payment, update.payment_event, update.provider_data)
         ELSE ApplyRefundUpdate(payment, update)
    /\ mapped' = mapped \ {update}
    /\ UNCHANGED <<refund, events, delivered>>

StaleInit == Init /\ mapped = {}

StaleNext ==
    \/ /\ \/ \E r \in Refund, status \in RefundStatus :
               \/ ForeignRefund(r, status)
               \/ StripeMoves(r, status)
          \/ \E r \in Refund :
               CancelRefund(r) \/ FlowCancelRefund(r) \/ StripeRepeats(r)
       /\ UNCHANGED mapped
    \/ \E r \in Refund, status \in RefundStatus : BeginStartRefund(r, status)
    \/ \E e \in events : MapCallback(e)
    \/ \E update \in mapped : ApplyMapped(update)

StaleSpec == StaleInit /\ [][StaleNext]_staleVars

-----------------------------------------------------------------------------
\* Type invariant: every waiting update was mapped from a delivered event, or is
\* a start_refund() response, and holds values of the types their keys have.
StaleTypeOK ==
    /\ TypeOK
    /\ \A update \in mapped :
         /\ update.provider_event_id \in delivered \cup {NoEvent}
         /\ WellTyped(update.provider_data)
=============================================================================
