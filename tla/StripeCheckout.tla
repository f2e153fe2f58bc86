---------------------------- MODULE StripeCheckout ----------------------------
(* Stripe's side of a checkout as the bundled simulator implements it: one      *)
(* order record per Checkout Session and its PaymentIntent, the legal status   *)
(* changes, and the payloads an order is rendered to.                          *)
EXTENDS CheckoutMapping

CheckoutStatus ==
    {"open", "declined", "processing", "requires_capture", "succeeded",
     "canceled", "expired"}

\* STRIPE_TRANSITIONS
Transitions(status) ==
    CASE status = "open" ->
           {"declined", "processing", "requires_capture", "succeeded", "expired"}
      [] status = "declined" ->
           {"processing", "requires_capture", "succeeded", "expired"}
      [] status = "processing" -> {"succeeded", "canceled", "declined"}
      [] status = "requires_capture" -> {"succeeded", "canceled"}
      [] OTHER -> {}

\* The order create_checkout_session() stores.
NewOrder(owner, capture_method) ==
    [owner |-> owner, capture_method |-> capture_method, status |-> "open",
     has_payment_intent |-> FALSE, amount_capturable |-> 0,
     amount_received |-> 0]

SessionStatus(order) ==
    CASE order.status \in {"open", "declined"} -> "open"
      [] order.status = "expired" -> "expired"
      [] OTHER -> "complete"

PaymentIntentStatus(order) ==
    IF order.status \in {"open", "declined"}
    THEN "requires_payment_method" ELSE order.status

SessionObject(c, order) ==
    [id |-> SessionId(c), status |-> SessionStatus(order),
     payment_intent |-> IF order.has_payment_intent THEN IntentId(c) ELSE None,
     metadata |-> order.owner, client_reference_id |-> order.owner,
     amount_capturable |-> 0, amount_received |-> 0,
     capture_method |-> None, closed_reason |-> None]

PaymentIntentObject(c, order) ==
    [id |-> IntentId(c), status |-> PaymentIntentStatus(order),
     payment_intent |-> None,
     metadata |-> order.owner, client_reference_id |-> None,
     amount_capturable |-> order.amount_capturable,
     amount_received |-> order.amount_received,
     capture_method |-> order.capture_method, closed_reason |-> None]

\* A review names its payment by the PaymentIntent only.
ReviewObject(c, closed_reason) ==
    [id |-> ReviewId(c), status |-> None, payment_intent |-> IntentId(c),
     metadata |-> None, client_reference_id |-> None,
     amount_capturable |-> 0, amount_received |-> 0,
     capture_method |-> None, closed_reason |-> closed_reason]

-----------------------------------------------------------------------------
(* What objects, events and updates look like, for payments with ids in owners. *)

\* Sessions, intents, reviews and refunds.
ObjectId == {"cs", "pi", "prv", "re"} \X Nat

PayloadObject(owners) ==
    [id : ObjectId, payment_intent : ObjectId \cup {None},
     metadata : owners \cup {None}, client_reference_id : owners \cup {None},
     status : CheckoutStatus \cup {"complete", "requires_payment_method", None},
     amount_capturable : Nat, amount_received : Nat,
     capture_method : {"automatic", "manual", None},
     closed_reason : {"approved", "refunded", None}]

WebhookEvent(owners) ==
    [type : SessionEvents \cup IntentEvents \cup ReviewEvents \cup {"refund.updated"},
     obj : PayloadObject(owners), n : Nat]

MappedUpdate(owners) ==
    [payment_event : PaymentEvent \cup {"REFUND_CONFIRMED", None}, amount : Nat,
     external_id : ObjectId \cup {None},
     provider_event_id : WebhookEvent(owners) \cup {None}]
=============================================================================
