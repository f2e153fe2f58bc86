--------------------------- MODULE PaymentLifecycle ---------------------------
(* One payment from prepare_transaction() to the money: its checkouts at        *)
(* Stripe, the webhooks about them in any order and number, charge() and        *)
(* release_lock() calls racing each other and the authorization's expiry, and   *)
(* the polling of fetch_payment_status().                                       *)
(*                                                                              *)
(* prepare_transaction(), a charge, a release and a poll ask Stripe, wait, and  *)
(* act on the answer; each await is a point where anything else may happen.  A  *)
(* callback is one critical section.  Core's FSM is not in the repository: the  *)
(* payment keeps the set of updates applied to it, and the properties are about *)
(* that set.                                                                    *)
EXTENDS StripeCheckout, FiniteSets, Sequences

CONSTANTS
    Checkout,     \* prepare_transaction() calls, numbered in their order
    PaymentId,    \* this payment's id
    Caller,       \* concurrent callers of charge() and release_lock()
    Amount,       \* the payment's amount_required
    ChargeAmounts,\* what callers ask charge() for: a Decimal, or None for all
    MaxAttempts,  \* bound: times the buyer tries to pay one checkout
    Reviewed      \* the checkouts Radar may review

ASSUME CheckoutAssumption == Checkout \subseteq Nat
ASSUME AmountAssumption == Amount \in Nat \ {0}
ASSUME ChargeAmountsAssumption == ChargeAmounts \ {None} \subseteq Nat
ASSUME MaxAttemptsAssumption == MaxAttempts \in Nat
ASSUME ReviewedAssumption == Reviewed \subseteq Checkout
ASSUME PaymentIdAssumption == PaymentId # None
ASSUME IdAssumption ==
    \A c \in Checkout : None \notin {SessionId(c), IntentId(c), <<"intent", c>>}
ASSUME IgnoredAssumption == None \notin MappedUpdate({PaymentId})

VARIABLES
    order,      \* Stripe: the orders, by checkout
    attempts,   \* Stripe: how often the buyer tried
    events,     \* Stripe: the events emitted
    delivered,  \* the events that reached the webhook at least once
    payment,    \* the local payment
    preparing,  \* the checkouts whose prepare_transaction() has not returned,
                \* or never will
    call,       \* the charge() or release_lock() each caller is in, or None
    polled,     \* the poll under way: the intent it goes on to, or its answer
    charged,    \* per checkout, what each charge() that reported success
                \* was asked for and told
    released    \* what release_lock() calls reported, per checkout

stripe == <<order, attempts, events>>
plugin == <<payment, preparing, call, polled, charged, released>>
vars == <<stripe, delivered, plugin>>

Init ==
    /\ order = [c \in {} |-> None]
    /\ attempts = [c \in Checkout |-> 0]
    /\ events = {}
    /\ delivered = {}
    /\ payment = NewPayment(PaymentId)
    /\ preparing = {}
    /\ call = [k \in Caller |-> None]
    /\ polled = None
    /\ charged = [c \in Checkout |-> <<>>]
    /\ released = [c \in Checkout |-> 0]

-----------------------------------------------------------------------------
(* Stripe and the buyer. *)

\* The unit_amount of every checkout, in minor units.
Total == ToMinor(Amount, Currency)

Exists(c) == c \in DOMAIN order
StatusIs(c, status) == Exists(c) /\ order[c].status = status

SessionEvent(c, type) ==
    [type |-> type, obj |-> SessionObject(c, order'[c]), n |-> attempts'[c]]
IntentEvent(c, type) ==
    [type |-> type, obj |-> PaymentIntentObject(c, order'[c]), n |-> attempts'[c]]
Emit(new) == events' = events \cup new

\* The state machine takes the order to a status and changes its fields.
Transition(c, status, fields) ==
    /\ Exists(c)
    /\ status \in Transitions(order[c].status)
    /\ order' = [order EXCEPT ![c] =
                    [f \in DOMAIN order[c] |->
                        IF f = "status" THEN status
                        ELSE IF f \in DOMAIN fields THEN fields[f]
                        ELSE order[c][f]]]

\* The buyer, who got the page's URL from prepare_transaction()'s result, submits
\* it; the PaymentIntent exists from then on.
Attempt(c, status, fields) ==
    /\ c \notin preparing
    /\ attempts[c] < MaxAttempts
    /\ Transition(c, status, fields)
    /\ order[c].status \in {"open", "declined"}
    /\ attempts' = [attempts EXCEPT ![c] = @ + 1]

Decline(c) ==
    /\ Attempt(c, "declined", [has_payment_intent |-> TRUE])
    /\ Emit({IntentEvent(c, "payment_intent.payment_failed")})

PayDelayed(c) ==
    /\ Attempt(c, "processing", [has_payment_intent |-> TRUE])
    /\ Emit({SessionEvent(c, "checkout.session.completed")})

PayManual(c) ==
    /\ Attempt(c, "requires_capture",
               [has_payment_intent |-> TRUE, amount_capturable |-> Total])
    /\ order[c].capture_method = "manual"
    /\ Emit({SessionEvent(c, "checkout.session.completed"),
             IntentEvent(c, "payment_intent.amount_capturable_updated")})

PayAutomatic(c) ==
    /\ Attempt(c, "succeeded",
               [has_payment_intent |-> TRUE, amount_received |-> Total])
    /\ order[c].capture_method = "automatic"
    /\ Emit({SessionEvent(c, "checkout.session.completed"),
             IntentEvent(c, "payment_intent.succeeded")})

Buyer(c) == Decline(c) \/ PayDelayed(c) \/ PayManual(c) \/ PayAutomatic(c)

\* The session ran out, or was expired through the API.
ExpireSession(c) ==
    /\ Transition(c, "expired", <<>>)
    /\ UNCHANGED attempts
    /\ Emit({SessionEvent(c, "checkout.session.expired")})

\* A delayed method settles or fails after the session completed.
SettleDelayed(c) ==
    /\ StatusIs(c, "processing")
    /\ Transition(c, "succeeded", [amount_received |-> Total])
    /\ UNCHANGED attempts
    /\ Emit({IntentEvent(c, "payment_intent.succeeded")})

FailDelayed(c) ==
    /\ StatusIs(c, "processing")
    /\ Transition(c, "declined", <<>>)
    /\ UNCHANGED attempts
    /\ Emit({IntentEvent(c, "payment_intent.payment_failed")})

\* The authorization expires, or the Dashboard cancels the intent.
CancelIntent(c) ==
    /\ Transition(c, "canceled", [amount_capturable |-> 0])
    /\ UNCHANGED attempts
    /\ Emit({IntentEvent(c, "payment_intent.canceled")})

CaptureIntent(c, amount) ==
    /\ StatusIs(c, "requires_capture")
    /\ amount \in 1..order[c].amount_capturable
    /\ Transition(c, "succeeded",
                  [amount_received |-> amount, amount_capturable |-> 0])
    /\ UNCHANGED attempts
    /\ Emit({IntentEvent(c, "payment_intent.succeeded")})

ReviewEvent(c, type, reason) ==
    [type |-> type, obj |-> ReviewObject(c, reason), n |-> 0]
ReviewIs(c, type) == \E e \in events : e.type = type /\ e.obj.id = ReviewId(c)

OpenReview(c) ==
    /\ c \in Reviewed
    /\ StatusIs(c, "requires_capture") \/ StatusIs(c, "succeeded")
    /\ Emit({ReviewEvent(c, "review.opened", None)})
    /\ UNCHANGED <<order, attempts>>

CloseReview(c) ==
    /\ ReviewIs(c, "review.opened") /\ ~ReviewIs(c, "review.closed")
    /\ \E reason \in {"approved", "refunded"} :
         Emit({ReviewEvent(c, "review.closed", reason)})
    /\ UNCHANGED <<order, attempts>>

StripeActs(c) ==
    /\ \/ Buyer(c)
       \/ ExpireSession(c) \/ SettleDelayed(c) \/ FailDelayed(c)
       \/ CancelIntent(c)
       \/ OpenReview(c) \/ CloseReview(c)
    /\ UNCHANGED <<delivered, plugin>>

-----------------------------------------------------------------------------
(* The plugin. *)

Apply(update) == payment' = ApplyPaymentUpdate(payment, update)

\* prepare_transaction(), up to the answer: Stripe creates a session.  The
\* application prepares again while it knows of nothing locked or paid.  An amount
\* Stripe cannot represent raises ValueError.
Prepare(c, capture_method) ==
    /\ ~ForbidsFraction(Amount, Currency)
    /\ ~Exists(c) /\ \A b \in Checkout : b < c => Exists(b)
    /\ Unpaid(payment)
    /\ order' = [b \in DOMAIN order \cup {c} |->
                    IF b = c THEN NewOrder(PaymentId, capture_method) ELSE order[b]]
    /\ preparing' = preparing \cup {c}
    /\ UNCHANGED <<attempts, events, delivered, payment, call, polled, charged,
                   released>>

\* Its result is saved, whatever was applied to the payment meanwhile, and the
\* buyer sent to the page: external_id is the session's cs_ id for now.  After a
\* lost answer or a crash this never happens, and nobody learns the page's URL.
SavePrepared(c) ==
    /\ c \in preparing
    /\ preparing' = preparing \ {c}
    /\ payment' = [payment EXCEPT !.external_id = SessionId(c)]
    /\ UNCHANGED <<stripe, delivered, call, polled, charged, released>>

Callback(e) ==
    /\ e \in events
    /\ ~Rejects(payment, e.obj)
    /\ delivered' = delivered \cup {e}
    /\ Apply(HandleCallback(payment, e))
    /\ UNCHANGED <<stripe, preparing, call, polled, charged, released>>

\* fetch_payment_status() answers with an update, or with nothing.
PollAnswers(update) == polled' = IF update = None THEN None ELSE <<"update", update>>

\* fetch_payment_status() on a session: an expired one failed, a complete one
\* leads to its intent after another await, an open one says nothing.
PollSession(c) ==
    /\ polled = None
    /\ payment.external_id = SessionId(c)
    /\ LET session == SessionObject(c, order[c]) IN
         \/ /\ session.status = "expired"
            /\ PollAnswers(FailedUpdate(session, None, None))
         \/ /\ session.status = "complete" /\ session.payment_intent # None
            /\ polled' = <<"intent", c>>
    /\ UNCHANGED <<stripe, delivered, payment, preparing, call, charged, released>>

\* fetch_payment_status() on an intent, bound already or found in the session.
PollIntent(c) ==
    /\ \/ polled = <<"intent", c>>
       \/ polled = None /\ payment.external_id = IntentId(c)
    /\ PollAnswers(MapPulledIntent(PaymentIntentObject(c, order[c])))
    /\ polled' # polled
    /\ UNCHANGED <<stripe, delivered, payment, preparing, call, charged, released>>

\* The application applies what the poll answered, however much has happened
\* at Stripe and here since Stripe was asked.
ApplyPolled ==
    /\ polled # None /\ polled[1] = "update"
    /\ Apply(polled[2])
    /\ polled' = None
    /\ UNCHANGED <<stripe, delivered, preparing, call, charged, released>>

\* charge() and release_lock(): the retrieve.  An unbound payment or an intent
\* that is not capturable ends the call with a ChargeFailure or LockFailure.
RetrieveForCall(k, c, op, amount) ==
    /\ call[k] = None
    /\ payment.external_id = IntentId(c)
    /\ order[c].status = "requires_capture"
    /\ call' = [call EXCEPT ![k] = [op |-> op, c |-> c, amount |-> amount]]
    /\ UNCHANGED <<stripe, delivered, payment, preparing, polled, charged, released>>

\* A charge of the whole authorization (None) or of a part of it.
StartCharge(k, c) ==
    \E asked \in ChargeAmounts :
        /\ asked # None => ~ForbidsFraction(asked, Currency)
        /\ RetrieveForCall(k, c, "charge", asked)

StartRelease(k, c) ==
    RetrieveForCall(k, c, "release", order[c].amount_capturable)

EndCall(k) == call' = [call EXCEPT ![k] = None]

ToCapture(c, asked) ==
    IF asked = None THEN order[c].amount_capturable ELSE ToMinor(asked, Currency)
ReportCharge(c, asked, amount_received) ==
    charged' = [charged EXCEPT ![c] =
        Append(@, [asked |-> asked, told |-> FromMinor(amount_received, Currency)])]

\* The capture succeeds; its response may be lost, and charge() then raises.
FinishCharge(k) ==
    /\ call[k] # None /\ call[k].op = "charge"
    /\ LET c == call[k].c IN
         /\ CaptureIntent(c, ToCapture(c, call[k].amount))
         /\ \/ UNCHANGED charged
            \/ ReportCharge(c, call[k].amount, order'[c].amount_received)
    /\ EndCall(k)
    /\ UNCHANGED <<delivered, payment, preparing, polled, released>>

\* The cancel succeeds; its response may be lost, and release_lock() raises.
FinishRelease(k) ==
    /\ call[k] # None /\ call[k].op = "release"
    /\ LET c == call[k].c IN
         /\ CancelIntent(c)
         /\ released' \in {released, [released EXCEPT ![c] =
                                        @ + FromMinor(call[k].amount, Currency)]}
    /\ EndCall(k)
    /\ UNCHANGED <<delivered, payment, preparing, polled, charged>>

\* Mutated form: a capture refused because the money was already captured is
\* taken for a success.
FailCall_AlreadyCapturedIsSuccess(k) ==
    /\ call[k] # None
    /\ LET c == call[k].c IN
         IF call[k].op = "charge" /\ StatusIs(c, "succeeded")
         THEN ReportCharge(c, call[k].amount, order[c].amount_received)
         ELSE UNCHANGED charged
    /\ EndCall(k)
    /\ UNCHANGED <<stripe, delivered, payment, preparing, polled, released>>

\* Stripe refuses, or cannot be reached: ChargeFailure or LockFailure.
FailCall(k) ==
    /\ call[k] # None
    /\ EndCall(k)
    /\ UNCHANGED <<stripe, delivered, payment, preparing, polled, charged, released>>

Next ==
    \/ \E c \in Checkout :
         \/ StripeActs(c)
         \/ \E capture_method \in {"automatic", "manual"} :
              Prepare(c, capture_method)
         \/ SavePrepared(c)
         \/ PollSession(c)
         \/ PollIntent(c)
         \/ \E k \in Caller : StartCharge(k, c) \/ StartRelease(k, c)
    \/ \E k \in Caller : FinishCharge(k) \/ FinishRelease(k) \/ FailCall(k)
    \/ ApplyPolled
    \/ \E e \in events : Callback(e)

Spec == Init /\ [][Next]_vars

\* Stripe retries a delivery until the endpoint answers.  Polls, calls, the
\* buyer and Stripe's own moves need never happen.
FirstDelivery == \E e \in events \ delivered : Callback(e)

FairSpec == Spec /\ WF_vars(FirstDelivery)

-----------------------------------------------------------------------------
(* Properties. *)

Ids == {SessionId(c) : c \in Checkout} \cup {IntentId(c) : c \in Checkout}

\* Type invariant.
TypeOK ==
    /\ DOMAIN order \subseteq Checkout
    /\ \A c \in DOMAIN order :
         /\ DOMAIN order[c] = DOMAIN NewOrder(PaymentId, "manual")
         /\ order[c].owner = PaymentId
         /\ order[c].status \in CheckoutStatus
         /\ order[c].capture_method \in {"automatic", "manual"}
         /\ order[c].has_payment_intent \in BOOLEAN
         /\ order[c].amount_capturable \in {0, Total}
         /\ order[c].amount_received \in 0..Total
    /\ attempts \in [Checkout -> 0..MaxAttempts]
    /\ events \subseteq WebhookEvent({PaymentId}) /\ delivered \subseteq events
    /\ preparing \subseteq DOMAIN order
    /\ DOMAIN payment = DOMAIN NewPayment(PaymentId)
    /\ payment.id = PaymentId
    /\ payment.external_id \in Ids \cup {None}
    /\ AppliedEventIds(payment) \subseteq delivered
    /\ DOMAIN call = Caller
    /\ \A k \in Caller : call[k] # None =>
         call[k].op \in {"charge", "release"} /\ call[k].c \in Checkout
    /\ polled # None =>
         \/ polled[1] = "intent" /\ polled[2] \in Checkout
         \/ polled[1] = "update" /\ polled[2].provider_event_id = None
    /\ charged \in [Checkout -> Seq([asked : ChargeAmounts, told : Nat])]
    /\ released \in [Checkout -> Nat]

Applied(payment_event, c) ==
    \E u \in payment.applied :
        u.payment_event = payment_event /\ u.external_id = IntentId(c)

\* What the payment was told about money is what happened at Stripe, however
\* late, by webhook or by poll: a capture was applied with the amount received
\* (a partial capture's, not the authorized one), a lock with the authorized
\* amount, and a lock was only released if nothing of it was captured.
AppliedMoneyIsTrue ==
    \A c \in Checkout, u \in payment.applied : u.external_id = IntentId(c) =>
        /\ u.payment_event = "PAYMENT_CAPTURED" =>
             /\ order[c].status = "succeeded"
             /\ u.amount = FromMinor(order[c].amount_received, Currency)
        /\ u.payment_event = "LOCKED" => u.amount = FromMinor(Total, Currency)
        /\ u.payment_event = "LOCK_RELEASED" =>
             /\ order[c].status = "canceled" /\ order[c].amount_received = 0
             /\ order[c].capture_method = "manual"

\* Of all the charge() and release_lock() calls on an authorization, which read
\* it as capturable before any of them acted, at most one reports success; and
\* release_lock() reports exactly the amount it freed.
OneCallMovesTheMoney ==
    \A c \in Checkout :
        /\ Len(charged[c]) <= 1
        /\ charged[c] # <<>> => released[c] = 0 /\ order[c].status = "succeeded"
        /\ released[c] # 0 =>
             /\ released[c] = FromMinor(Total, Currency)
             /\ order[c].status = "canceled"

\* What charge() reports is what the buyer pays, and what the caller meant: the
\* whole authorization, or for a part an amount Stripe can charge that is as near
\* to the asked one as the currency allows - after the amount went from Decimal
\* to minor units, through a capture racing others, and back.
ChargedAsAsked ==
    \A c \in Checkout : \A i \in DOMAIN charged[c] :
        LET asked == charged[c][i].asked
            told == charged[c][i].told
        IN  /\ told = FromMinor(order[c].amount_received, Currency)
            /\ IsChargeable(order[c].amount_received, Currency)
            /\ asked = None => told = FromMinor(Total, Currency)
            /\ asked # None => IsNearest(told, asked, Currency)

\* An application that prepares a payment once can always act on its money: the
\* first webhook delivered that carries the PaymentIntent id binds it, and nothing
\* that comes later, late session events, failed attempts and stale polls
\* included, unbinds it.  Reviews are the exception: DeliveredReviewsApplied.
SoleIntentStaysBound ==
    \A c \in Checkout : DOMAIN order = {c} =>
        \/ payment.external_id = IntentId(c)
        \/ \A e \in delivered : e.type \in SessionEvents \cup IntentEvents =>
             IntentId(c) \notin {e.obj.id, e.obj.payment_intent}

\* An event of the type about the object is still to be delivered.
ToCome(type, id) == \E e \in events \ delivered : e.type = type /\ e.obj.id = id

SessionFailed(c) ==
    \E u \in payment.applied :
        /\ u.payment_event = "FAILED"
        /\ u.provider_event_id \in delivered
        /\ u.provider_event_id.obj.id = SessionId(c)

\* The n-th attempt to pay the checkout is known to have failed.
AttemptFailed(c, n) ==
    \E u \in payment.applied :
        /\ u.payment_event = "FAILED" /\ u.external_id = IntentId(c)
        /\ u.provider_event_id \in delivered
        /\ u.provider_event_id.n = n

\* No outcome is lost: what a checkout came to, each failed attempt to pay it
\* included, was applied to the payment, unless the event that says so is still to
\* be delivered - although the payment may have been prepared again and bound
\* elsewhere, events come late and repeatedly, and responses of calls are lost.
NoOutcomeLost ==
    \A c \in Checkout :
        /\ StatusIs(c, "succeeded") =>
             \/ Applied("PAYMENT_CAPTURED", c)
             \/ ToCome("payment_intent.succeeded", IntentId(c))
        /\ StatusIs(c, "canceled") =>
             \/ Applied("LOCK_RELEASED", c) \/ Applied("FAILED", c)
             \/ ToCome("payment_intent.canceled", IntentId(c))
        /\ StatusIs(c, "expired") =>
             SessionFailed(c) \/ ToCome("checkout.session.expired", SessionId(c))
        /\ StatusIs(c, "requires_capture") =>
             \/ Applied("LOCKED", c)
             \/ ToCome("payment_intent.amount_capturable_updated", IntentId(c))
        /\ StatusIs(c, "declined") =>
             \/ AttemptFailed(c, attempts[c])
             \/ \E e \in events \ delivered :
                  /\ e.type = "payment_intent.payment_failed"
                  /\ e.obj.id = IntentId(c) /\ e.n = attempts[c]

\* Every outcome at Stripe reaches the payment through the webhooks alone.
OutcomesReachPayment ==
    \A c \in Checkout :
        /\ StatusIs(c, "succeeded") ~> Applied("PAYMENT_CAPTURED", c)
        /\ StatusIs(c, "canceled")
             ~> Applied("LOCK_RELEASED", c) \/ Applied("FAILED", c)
        /\ StatusIs(c, "expired") ~> SessionFailed(c)
        /\ \A n \in 1..MaxAttempts :
             StatusIs(c, "declined") /\ attempts[c] = n ~> AttemptFailed(c, n)

HoldsMoney(c) == StatusIs(c, "requires_capture") \/ StatusIs(c, "succeeded")

\* A payment prepared once whose money is authorized or taken ends up bound to
\* that very intent, so charge(), release_lock() and start_refund() act on it.
PaidPaymentGetsBound ==
    \A c \in Checkout :
        HoldsMoney(c) /\ DOMAIN order = {c}
            ~> payment.external_id = IntentId(c) \/ DOMAIN order # {c}

-----------------------------------------------------------------------------
(* The abstract specification. *)

\* The facts about a checkout's money: its authorization by Stripe's event, which
\* its later status does not show, its capture and its release by the order.
Locked(c) ==
    \E e \in events : /\ e.type = "payment_intent.amount_capturable_updated"
                      /\ e.obj.id = IntentId(c)

Fact(what, amount) == [what |-> what, amount |-> amount]
When(condition, fact) == IF condition THEN {fact} ELSE {}

Happened(c) ==
    When(Locked(c), Fact("LOCKED", FromMinor(Total, Currency)))
    \cup When(StatusIs(c, "succeeded"),
              Fact("PAYMENT_CAPTURED", FromMinor(order[c].amount_received, Currency)))
    \cup When(StatusIs(c, "canceled") /\ order[c].capture_method = "manual",
              Fact("LOCK_RELEASED", 0))

Known(c) ==
    {Fact(u.payment_event, u.amount) :
        u \in {v \in payment.applied :
                 /\ v.external_id = IntentId(c)
                 /\ v.payment_event \in
                      {"LOCKED", "PAYMENT_CAPTURED", "LOCK_RELEASED"}}}

Told(c) ==
    {Fact("PAYMENT_CAPTURED", charged[c][i].told) : i \in DOMAIN charged[c]}
    \cup When(released[c] # 0, Fact("LOCK_RELEASED", 0))

Money == INSTANCE PaymentMoney WITH
            Whole    <- FromMinor(Total, Currency),
            Part     <- {FromMinor(ToMinor(asked, Currency), Currency) :
                            asked \in ChargeAmounts \ {None}},
            happened <- [c \in Checkout |-> Happened(c)],
            known    <- [c \in Checkout |-> Known(c)],
            told     <- [c \in Checkout |-> Told(c)]

\* Webhooks, polls and calls together keep the promises of PaymentMoney: money
\* moves once per checkout, the payment is never told of money that did not
\* move, and a call reports only what it did itself.
ImplementsPaymentMoney == Money!Spec

-----------------------------------------------------------------------------
(* What the documentation says, and the code does not do. *)

\* charge(): the authoritative PAYMENT_CAPTURED arrives exactly once, via
\* payment_intent.succeeded.
ChargeCapturedOnce ==
    \A c \in Checkout, u, v \in payment.applied :
        /\ charged[c] # <<>>
        /\ u.payment_event = "PAYMENT_CAPTURED" /\ u.external_id = IntentId(c)
        /\ v.payment_event = "PAYMENT_CAPTURED" /\ v.external_id = IntentId(c)
        => u = v

\* The payment knows that money of the checkout is held or was taken.
KnownPaid(c) ==
    HoldsMoney(c) /\ (Applied("LOCKED", c) \/ Applied("PAYMENT_CAPTURED", c))

\* SPEC.md: external_id is always the id money operations act on.  So a payment
\* that knows where its money is, and is bound to an intent, is bound to one that
\* holds money.
BoundToTheMoney ==
    (\E c \in Checkout : KnownPaid(c)) /\ IsIntentId(payment.external_id) =>
        \E c \in Checkout : HoldsMoney(c) /\ payment.external_id = IntentId(c)

\* SPEC.md: unordered arrival is handled.  So a delivered review reaches the
\* payment it is about.
DeliveredReviewsApplied ==
    \A e \in delivered : e.type \in ReviewEvents => e \in AppliedEventIds(payment)
=============================================================================
