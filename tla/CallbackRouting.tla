--------------------------- MODULE CallbackRouting ---------------------------
(* One webhook URL for all payments: a framework adapter reads the correlation *)
(* handles off an event, finds the local payment, and hands the event to that  *)
(* payment's processor, which judges for itself whether the event is its own.  *)
(*                                                                             *)
(* The Stripe account is shared: some checkouts belong to nobody here and      *)
(* carry no evidence.  An event may also reach a payment it is not about,      *)
(* through an adapter with one URL per payment.  The adapter is external.      *)
EXTENDS StripeCheckout

CONSTANTS
    Payment,   \* ids of the local payments
    Checkout   \* checkouts at Stripe, numbered in the order they are created

ASSUME CheckoutAssumption == Checkout \subseteq Nat
ASSUME PaymentAssumption == None \notin Payment
ASSUME IdAssumption == \A c \in Checkout : None \notin {SessionId(c), IntentId(c)}
ASSUME IgnoredAssumption == None \notin WebhookEvent(Payment) \cup MappedUpdate(Payment)

VARIABLES
    order,      \* Stripe: the orders, by checkout
    events,     \* Stripe: the events emitted
    delivered,  \* the events the adapter routed, or found no payment for
    payment,    \* the local payments
    preparing   \* the checkouts whose prepare_transaction() has not returned,
                \* or never will

vars == <<order, events, delivered, payment, preparing>>

Init ==
    /\ order = [c \in {} |-> None]
    /\ events = {}
    /\ delivered = {}
    /\ payment = [p \in Payment |-> NewPayment(p)]
    /\ preparing = {}

-----------------------------------------------------------------------------
(* Stripe. *)

Exists(c) == c \in DOMAIN order
StatusIs(c, status) == Exists(c) /\ order[c].status = status

Event(type, obj) == [type |-> type, obj |-> obj, n |-> 0]

\* A refund names its payment by metadata only if the plugin created it.
RefundObject(c, metadata) ==
    [id |-> <<"re", c>>, status |-> "succeeded", payment_intent |-> IntentId(c),
     metadata |-> metadata, client_reference_id |-> None,
     amount_capturable |-> 0, amount_received |-> 0,
     capture_method |-> None, closed_reason |-> None]

IsRefundEvent(e) == e.type = "refund.updated"

\* Events that follow a sale name it by its PaymentIntent.  Bound: one of a
\* checkout, a refund's or a review's.
AfterSale(c) == {e \in events : e.obj.id \in {<<"re", c>>, ReviewId(c)}}
EmitAfterSale(c, e) ==
    /\ StatusIs(c, "succeeded") /\ AfterSale(c) = {}
    /\ events' = events \cup {e}
EmitRefund(c, metadata) ==
    EmitAfterSale(c, Event("refund.updated", RefundObject(c, metadata)))

Create(c, owner) ==
    /\ ~Exists(c) /\ \A b \in Checkout : b < c => Exists(b)
    /\ order' = [b \in DOMAIN order \cup {c} |->
                    IF b = c THEN NewOrder(owner, "automatic") ELSE order[b]]

\* Other software sells through the same account.
ForeignCheckout(c) == Create(c, None) /\ UNCHANGED <<events, delivered, payment, preparing>>

\* The buyer needs the page's URL, which prepare_transaction()'s result carries.
Pay(c) ==
    /\ c \notin preparing
    /\ StatusIs(c, "open") \/ StatusIs(c, "declined")
    /\ order' = [order EXCEPT ![c].status = "succeeded",
                              ![c].has_payment_intent = TRUE,
                              ![c].amount_received = 1]
    /\ events' = events \cup
         {Event("checkout.session.completed", SessionObject(c, order'[c])),
          Event("payment_intent.succeeded", PaymentIntentObject(c, order'[c]))}
    /\ UNCHANGED <<delivered, payment, preparing>>

Decline(c) ==
    /\ c \notin preparing
    /\ StatusIs(c, "open")
    /\ order' = [order EXCEPT ![c].status = "declined",
                              ![c].has_payment_intent = TRUE]
    /\ events' = events \cup
         {Event("payment_intent.payment_failed", PaymentIntentObject(c, order'[c]))}
    /\ UNCHANGED <<delivered, payment, preparing>>

\* From the Dashboard: no metadata.
DashboardRefund(c) ==
    /\ EmitRefund(c, None)
    /\ UNCHANGED <<order, delivered, payment, preparing>>

Review(c) ==
    /\ EmitAfterSale(c, Event("review.opened", ReviewObject(c, None)))
    /\ UNCHANGED <<order, delivered, payment, preparing>>

-----------------------------------------------------------------------------
(* The plugin and the adapter. *)

\* prepare_transaction(), up to Stripe's answer.
Prepare(p, c) ==
    /\ Unpaid(payment[p])
    /\ Create(c, p)
    /\ preparing' = preparing \cup {c}
    /\ UNCHANGED <<events, delivered, payment>>

\* Its result is saved, over whatever the payment was bound to meanwhile, and the
\* buyer redirected; after a lost answer or a crash, never.
SavePrepared(c) ==
    /\ c \in preparing
    /\ preparing' = preparing \ {c}
    /\ payment' = [payment EXCEPT ![order[c].owner].external_id = SessionId(c)]
    /\ UNCHANGED <<order, events, delivered>>

\* start_refund() needs a bound intent, and puts the payment's id in metadata.
StartRefund(p, c) ==
    /\ payment[p].external_id = IntentId(c)
    /\ EmitRefund(c, p)
    /\ UNCHANGED <<order, delivered, payment, preparing>>

\* Mutated form: back-references are not followed.
ExtractCallbackCorrelation_OwnIdOnly(obj) ==
    [payment_id  |-> IF obj.metadata # None
                     THEN obj.metadata ELSE obj.client_reference_id,
     external_id |-> IF IsIntentId(obj.id) THEN obj.id ELSE None]

\* extract_callback_correlation(); both handles None stand for no correlation.
ExtractCallbackCorrelation(obj) ==
    [payment_id  |-> IF obj.metadata # None
                     THEN obj.metadata ELSE obj.client_reference_id,
     external_id |-> IF obj.payment_intent # None THEN obj.payment_intent
                     ELSE IF IsIntentId(obj.id) THEN obj.id ELSE None]

\* The payments the handles of an event name.
Resolve(e) ==
    LET correlation == ExtractCallbackCorrelation(e.obj) IN
        {p \in Payment :
            \/ p = correlation.payment_id
            \/ /\ correlation.external_id # None
               /\ payment[p].external_id = correlation.external_id}

\* Mutated form: a refund event binds the refund's own id.
HandleEvent_RefundId(local, e) ==
    IF ~IsRefundEvent(e) THEN HandleCallback(local, e)
    ELSE IF IsCorrelated(local, e.obj)
    THEN PaymentUpdate("REFUND_CONFIRMED", 0, e.obj.id, e) ELSE None

\* handle_callback() with its refund branch, which binds the intent as well.
HandleEvent(local, e) ==
    IF ~IsRefundEvent(e) THEN HandleCallback(local, e)
    ELSE IF IsCorrelated(local, e.obj)
    THEN PaymentUpdate("REFUND_CONFIRMED", 0, e.obj.payment_intent, e) ELSE None

\* The processor of p is given the event, rightly or not; one that rejects it
\* raises, and Stripe tries again.
Callback(p, e) ==
    /\ e \in events
    /\ ~Rejects(payment[p], e.obj)
    /\ payment' = [payment EXCEPT ![p] = ApplyPaymentUpdate(@, HandleEvent(@, e))]
    /\ delivered' = IF p \in Resolve(e) THEN delivered \cup {e} ELSE delivered
    /\ UNCHANGED <<order, events, preparing>>

\* An event that names no payment is logged and ignored.
Unresolved(e) ==
    /\ e \in events
    /\ Resolve(e) = {}
    /\ delivered' = delivered \cup {e}
    /\ UNCHANGED <<order, events, payment, preparing>>

Next ==
    \/ \E c \in Checkout :
         \/ ForeignCheckout(c)
         \/ SavePrepared(c)
         \/ Pay(c) \/ Decline(c)
         \/ DashboardRefund(c) \/ Review(c)
         \/ \E p \in Payment : Prepare(p, c) \/ StartRefund(p, c)
    \/ \E e \in events : Unresolved(e) \/ \E p \in Payment : Callback(p, e)

Spec == Init /\ [][Next]_vars

\* Stripe retries until an event was answered with success.
FirstDelivery ==
    \E e \in events \ delivered :
        Unresolved(e) \/ \E p \in Resolve(e) : Callback(p, e)

FairSpec == Spec /\ WF_vars(FirstDelivery)

-----------------------------------------------------------------------------
(* Properties. *)

\* The payment an object is truly about, whatever evidence it carries.
Owner(obj) == order[obj.id[2]].owner

\* Type invariant.
TypeOK ==
    /\ DOMAIN order \subseteq Checkout
    /\ \A c \in DOMAIN order :
         order[c].owner \in Payment \cup {None} /\ order[c].status \in CheckoutStatus
    /\ \A c \in preparing : Exists(c) /\ order[c].owner # None
    /\ events \subseteq WebhookEvent(Payment) /\ delivered \subseteq events
    /\ \A p \in Payment :
         /\ payment[p].id = p
         /\ LET id == payment[p].external_id IN
              id # None => (IsSessionId(id) \/ IsIntentId(id)) /\ id[2] \in Checkout
         /\ AppliedEventIds(payment[p]) \subseteq events

\* Money stays with its payment: no event of another payment, or of other
\* software on the account, is ever applied to a payment, and none is ever bound
\* to another's checkout - whatever is misrouted, and although reviews and
\* Dashboard refunds carry no payment id and are told apart by a binding that
\* earlier events made.
OnlyOwnEvents ==
    \A p \in Payment :
        /\ \A e \in AppliedEventIds(payment[p]) : Owner(e.obj) = p
        /\ payment[p].external_id # None => Owner([id |-> payment[p].external_id]) = p

\* extract_callback_correlation() is the forward direction of _is_correlated():
\* in every reachable state the payments an event's handles name are exactly the
\* payments whose processor accepts it.  None that would accept is passed over,
\* none is picked that would reject.
RoutingAgrees ==
    \A e \in events, p \in Payment :
        p \in Resolve(e) <=> ~Rejects(payment[p], e.obj) /\ IsCorrelated(payment[p], e.obj)

AppliedTo(p, e) == e \in AppliedEventIds(payment[p])

\* No sale is lost: a checkout that was paid for a payment was applied to that
\* payment, unless its event is still to be delivered - although deliveries to
\* other payments are accepted in silence, and events that name nobody dropped.
NoSaleLost ==
    \A c \in Checkout, p \in Payment :
        StatusIs(c, "succeeded") /\ order[c].owner = p =>
            \E e \in events :
                /\ e.obj.id = IntentId(c) /\ e.type = "payment_intent.succeeded"
                /\ AppliedTo(p, e) \/ e \notin delivered

\* The delivery that Stripe takes for done reaches every payment the event is
\* known to be about: one whose id it carries, or whose binding, as earlier events
\* made it, names its intent.  Stripe will not send it again.
DeliveryReachesPayment ==
    [][\A e \in events, p \in Payment :
         /\ e \notin delivered /\ e \in delivered'
         /\ IsCorrelated(payment[p], e.obj)
         => AppliedTo(p, e)']_vars

\* The payment was prepared once.
Sole(c, p) == {b \in DOMAIN order : order[b].owner = p} = {c}

\* What Stripe says about a payment reaches it: its success; a refund event that
\* carries the payment's id, whatever the payment is bound to by then; and one
\* without it, or a review, once a payment prepared only once is bound to the
\* intent.  A payment with two checkouts may be bound to the other by then.
EventsReachTheirPayment ==
    \A c \in Checkout, p \in Payment :
        /\ StatusIs(c, "succeeded") /\ order[c].owner = p
             ~> \E e \in events :
                    AppliedTo(p, e) /\ e.obj.id = IntentId(c) /\ e.obj.status = "succeeded"
        /\ (\E e \in AfterSale(c) : e.obj.metadata = p)
             ~> \E e \in AfterSale(c) : AppliedTo(p, e)
        /\ (/\ Sole(c, p) /\ payment[p].external_id = IntentId(c)
            /\ AfterSale(c) \ delivered # {})
             ~> (\E e \in AfterSale(c) : AppliedTo(p, e)) \/ ~Sole(c, p)
=============================================================================
