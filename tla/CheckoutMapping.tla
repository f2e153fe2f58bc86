--------------------------- MODULE CheckoutMapping ---------------------------
(* The pure half of StripeProcessor for checkouts: how a verified webhook, or  *)
(* a PaymentIntent the application polls, maps to a PaymentUpdate.             *)
(*                                                                             *)
(* A payload object is a record [id, payment_intent, metadata,                 *)
(* client_reference_id, status, amount_capturable, amount_received,            *)
(* capture_method, closed_reason]; a field the payload lacks is None (or 0).   *)
(* An event is [type, obj, n], and is its own identity.  Refund events are     *)
(* RefundMapping's.  session_id, payment_status, locked_at and                 *)
(* cancellation_reason are stored and never read back, so updates omit them.   *)
EXTENDS Currencies

CONSTANTS
    None,      \* Python's None
    Currency   \* the currency field of every payload

ASSUME CurrencyAssumption == Currency \in CurrencyCode

\* Checkout c has a Session, a PaymentIntent and possibly a Radar review.
SessionId(c) == <<"cs", c>>
IntentId(c) == <<"pi", c>>
ReviewId(c) == <<"prv", c>>

IsSessionId(id) == id # None /\ id[1] = "cs"
IsIntentId(id) == id # None /\ id[1] = "pi"

PaymentEvent ==
    {"LOCKED", "PAYMENT_CAPTURED", "LOCK_RELEASED", "FAILED", "REVIEW", "ACCEPT",
     "REJECT"}

ASSUME NoneAssumption == None \notin PaymentEvent

\* Payloads hold minor units, updates Decimals.
PaymentUpdate(payment_event, amount, external_id, event_id) ==
    [payment_event     |-> payment_event,
     amount            |-> amount,
     external_id       |-> external_id,
     provider_event_id |-> event_id]

\* apply_payment_update(), as far as this plugin shows it: an ignored result
\* and an event seen before change nothing, a missing external_id keeps the old
\* one.  A payment is a record [id, external_id, applied].
AppliedEventIds(payment) == {u.provider_event_id : u \in payment.applied} \ {None}

ApplyPaymentUpdate(payment, update) ==
    IF update = None THEN payment
    ELSE IF update.provider_event_id \in AppliedEventIds(payment) THEN payment
    ELSE [payment EXCEPT
            !.external_id = IF update.external_id = None
                            THEN @ ELSE update.external_id,
            !.applied = @ \cup {update}]

NewPayment(id) == [id |-> id, external_id |-> None, applied |-> {}]

\* Nothing of the payment was locked or paid: the application may prepare again.
Unpaid(payment) ==
    \A u \in payment.applied : u.payment_event \notin {"LOCKED", "PAYMENT_CAPTURED"}

-----------------------------------------------------------------------------
(* _is_correlated() *)

Evidence(obj) == {obj.metadata, obj.client_reference_id} \ {None}

\* Evidence for another payment raises InvalidCallbackError.
Rejects(payment, obj) == \E id \in Evidence(obj) : id # payment.id

\* Mutated form: only the bound id counts, not the metadata.
IsCorrelated_ByExternalIdOnly(payment, obj) ==
    /\ payment.external_id # None
    /\ payment.external_id \in {obj.id, obj.payment_intent}

\* Mutated form: an object without evidence is accepted too.
IsCorrelated_UnlessRejected(payment, obj) == ~Rejects(payment, obj)

IsCorrelated(payment, obj) ==
    \/ payment.id \in Evidence(obj)
    \/ /\ payment.external_id # None
       /\ payment.external_id \in {obj.id, obj.payment_intent}

-----------------------------------------------------------------------------
(* The mappers. *)

LockedUpdate(obj, event_id) ==
    PaymentUpdate("LOCKED", FromMinor(obj.amount_capturable, Currency),
                  obj.id, event_id)

\* Mutated form: the wrong amount field.
CapturedUpdate_Capturable(obj, event_id) ==
    PaymentUpdate("PAYMENT_CAPTURED", FromMinor(obj.amount_capturable, Currency),
                  obj.id, event_id)

CapturedUpdate(obj, event_id) ==
    PaymentUpdate("PAYMENT_CAPTURED", FromMinor(obj.amount_received, Currency),
                  obj.id, event_id)

FailedUpdate(obj, external_id, event_id) ==
    PaymentUpdate("FAILED", 0, external_id, event_id)

\* Mutated form: only a manual cancellation is reported.
CanceledUpdate_ManualOnly(obj, event_id) ==
    IF obj.capture_method = "manual"
    THEN PaymentUpdate("LOCK_RELEASED", 0, obj.id, event_id)
    ELSE None

\* Canceling a manual intent is releasing the lock; an automatic one failed.
CanceledUpdate(obj, event_id) ==
    IF obj.capture_method = "manual"
    THEN PaymentUpdate("LOCK_RELEASED", 0, obj.id, event_id)
    ELSE FailedUpdate(obj, obj.id, event_id)

\* Mutated form: the session's own id is stored.
MapSessionEvent_OwnId(e) ==
    IF e.type = "checkout.session.completed"
    THEN PaymentUpdate(None, 0, e.obj.id, e)
    ELSE FailedUpdate(e.obj, e.obj.id, e)

\* completed carries no payment event: it promotes external_id from the
\* Session to its PaymentIntent.
MapSessionEvent(e) ==
    CASE e.type = "checkout.session.completed" ->
           PaymentUpdate(None, 0, e.obj.payment_intent, e)
      [] e.type = "checkout.session.expired" ->
           FailedUpdate(e.obj, e.obj.payment_intent, e)
      [] OTHER -> None

MapPaymentIntentEvent(e) ==
    CASE e.type = "payment_intent.amount_capturable_updated" ->
           LockedUpdate(e.obj, e)
      [] e.type = "payment_intent.succeeded" -> CapturedUpdate(e.obj, e)
      [] e.type = "payment_intent.payment_failed" ->
           FailedUpdate(e.obj, e.obj.id, e)
      [] e.type = "payment_intent.canceled" -> CanceledUpdate(e.obj, e)
      [] OTHER -> None

\* Mutated form: the review's own id is stored.
MapReviewEvent_OwnId(e) == PaymentUpdate("REVIEW", 0, e.obj.id, e)

MapReviewEvent(e) ==
    CASE e.type = "review.opened" ->
           PaymentUpdate("REVIEW", 0, e.obj.payment_intent, e)
      [] e.type = "review.closed" ->
           PaymentUpdate(IF e.obj.closed_reason = "approved"
                         THEN "ACCEPT" ELSE "REJECT",
                         0, e.obj.payment_intent, e)
      [] OTHER -> None

SessionEvents == {"checkout.session.completed", "checkout.session.expired"}
IntentEvents ==
    {"payment_intent.amount_capturable_updated", "payment_intent.succeeded",
     "payment_intent.payment_failed", "payment_intent.canceled"}
ReviewEvents == {"review.opened", "review.closed"}

\* handle_callback() for the event types the plugin subscribes to; None where
\* it ignores the event.  Callers rule out Rejects first.
HandleCallback(payment, e) ==
    IF ~IsCorrelated(payment, e.obj) THEN None
    ELSE CASE e.type \in SessionEvents -> MapSessionEvent(e)
           [] e.type \in IntentEvents -> MapPaymentIntentEvent(e)
           [] e.type \in ReviewEvents -> MapReviewEvent(e)
           [] OTHER -> None

\* Mutated form: a payment still processing is taken for locked.
MapPulledIntent_ProcessingIsLocked(obj) ==
    CASE obj.status \in {"requires_capture", "processing"} -> LockedUpdate(obj, None)
      [] obj.status = "succeeded" -> CapturedUpdate(obj, None)
      [] obj.status = "canceled" -> CanceledUpdate(obj, None)
      [] OTHER -> None

\* _map_pulled_intent(): the webhook mappers, without an event id.
MapPulledIntent(obj) ==
    CASE obj.status = "requires_capture" -> LockedUpdate(obj, None)
      [] obj.status = "succeeded" -> CapturedUpdate(obj, None)
      [] obj.status = "canceled" -> CanceledUpdate(obj, None)
      [] OTHER -> None
=============================================================================
