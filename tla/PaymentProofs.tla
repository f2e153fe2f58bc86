---------------------------- MODULE PaymentProofs ----------------------------
(* Proofs about PaymentLifecycle, for any number of checkouts, callers and     *)
(* attempts to pay, and for every amount in every currency.                    *)
EXTENDS PaymentLifecycle, CurrenciesProofs

\* The ids of the checkouts that exist.
Bound(orders) ==
    {SessionId(c) : c \in DOMAIN orders} \cup {IntentId(c) : c \in DOMAIN orders}

-----------------------------------------------------------------------------
(* The inductive invariant, in parts that name the orders they speak of.       *)

\* An order is well formed; only a capture or a payment gave it money, and an
\* authorization is of the whole amount.
OrderOK(o) ==
    /\ DOMAIN o = DOMAIN NewOrder(PaymentId, "manual")
    /\ o.owner = PaymentId
    /\ o.status \in CheckoutStatus
    /\ o.capture_method \in {"automatic", "manual"}
    /\ o.has_payment_intent \in BOOLEAN
    /\ o.amount_capturable \in {0, Total}
    /\ o.amount_received \in 0..Total
    /\ o.status = "requires_capture" => o.amount_capturable = Total
    /\ o.status # "succeeded" => o.amount_received = 0
    /\ ~ForbidsFraction(Amount, Currency)

OrdersOK(orders) ==
    /\ DOMAIN orders \subseteq Checkout
    /\ \A c \in DOMAIN orders : OrderOK(orders[c])

\* What an update says of an intent is, and stays, true.
TellsTruth(u, orders) ==
    /\ u.external_id \in {None} \cup {IntentId(c) : c \in DOMAIN orders}
    /\ \A c \in DOMAIN orders : u.external_id = IntentId(c) =>
         /\ u.payment_event = "PAYMENT_CAPTURED" =>
              /\ orders[c].status = "succeeded"
              /\ u.amount = FromMinor(orders[c].amount_received, Currency)
         /\ u.payment_event = "LOCKED" => u.amount = FromMinor(Total, Currency)
         /\ u.payment_event = "LOCK_RELEASED" =>
              /\ orders[c].status = "canceled" /\ orders[c].amount_received = 0
              /\ orders[c].capture_method = "manual"

\* An event carries what the updates mapped from it will say.
EventTells(e, orders) ==
    /\ e.type \in SessionEvents =>
         e.obj.payment_intent \in {None} \cup {IntentId(c) : c \in DOMAIN orders}
    /\ e.type \in ReviewEvents =>
         \E c \in DOMAIN orders :
           e.obj.id = ReviewId(c) /\ e.obj.payment_intent = IntentId(c)
    /\ e.type \in IntentEvents =>
         \E c \in DOMAIN orders :
           /\ e.obj.id = IntentId(c)
           /\ e.type = "payment_intent.succeeded" =>
                /\ orders[c].status = "succeeded"
                /\ e.obj.amount_received = orders[c].amount_received
           /\ e.type = "payment_intent.amount_capturable_updated" =>
                e.obj.amount_capturable = Total
           /\ e.type = "payment_intent.canceled" =>
                /\ orders[c].status = "canceled"
                /\ e.obj.capture_method = orders[c].capture_method

PaymentOK(p, orders, seen) ==
    /\ DOMAIN p = DOMAIN NewPayment(PaymentId)
    /\ p.id = PaymentId
    /\ p.external_id \in {None} \cup Bound(orders)
    /\ AppliedEventIds(p) \subseteq seen
    /\ \A u \in p.applied : TellsTruth(u, orders)

PollOK(poll, orders) ==
    poll # None =>
        \/ poll[1] = "intent" /\ poll[2] \in DOMAIN orders
        \/ /\ poll[1] = "update"
           /\ poll[2].provider_event_id = None
           /\ TellsTruth(poll[2], orders)

\* What a call carries over its await.
CallOK(cl, orders) ==
    cl # None =>
        /\ cl.op \in {"charge", "release"}
        /\ cl.c \in DOMAIN orders
        /\ cl.op = "charge" =>
             /\ cl.amount \in ChargeAmounts
             /\ cl.amount # None => ~ForbidsFraction(cl.amount, Currency)
        /\ cl.op = "release" => cl.amount = Total

\* What callers were told about a checkout.
ReportsOK(c, orders, reports, freed) ==
    /\ Len(reports) <= 1
    /\ reports # <<>> =>
         /\ c \in DOMAIN orders
         /\ orders[c].status = "succeeded"
         /\ freed = 0
    /\ freed # 0 =>
         /\ c \in DOMAIN orders
         /\ orders[c].status = "canceled"
         /\ freed = FromMinor(Total, Currency)
    /\ \A i \in DOMAIN reports :
         LET asked == reports[i].asked
             told == reports[i].told
         IN  /\ told = FromMinor(orders[c].amount_received, Currency)
             /\ IsChargeable(orders[c].amount_received, Currency)
             /\ asked = None => told = FromMinor(Total, Currency)
             /\ asked # None => IsNearest(told, asked, Currency)

Report == [asked : ChargeAmounts, told : Nat]

StripeInv ==
    /\ OrdersOK(order)
    /\ attempts \in [Checkout -> 0..MaxAttempts]
    /\ \A e \in events : EventTells(e, order)
    /\ delivered \subseteq events

PluginInv ==
    /\ PaymentOK(payment, order, delivered)
    /\ PollOK(polled, order)
    /\ DOMAIN call = Caller
    /\ \A k \in Caller : CallOK(call[k], order)
    /\ preparing \subseteq DOMAIN order

ReportInv ==
    /\ charged \in [Checkout -> Seq(Report)]
    /\ released \in [Checkout -> Nat]
    /\ \A c \in Checkout : ReportsOK(c, order, charged[c], released[c])

PInv == StripeInv /\ PluginInv /\ ReportInv

\* Orders are never lost, and one that succeeded or was canceled never changes.
Grows(old, new) ==
    /\ DOMAIN old \subseteq DOMAIN new
    /\ \A c \in DOMAIN old :
         old[c].status \in {"succeeded", "canceled"} => new[c] = old[c]

-----------------------------------------------------------------------------
(* Amounts and ids. *)

LEMMA TotalFacts ==
    ASSUME ~ForbidsFraction(Amount, Currency)
    PROVE  Total \in Nat /\ IsChargeable(Total, Currency)
BY NearestChargeable, AmountAssumption, CurrencyAssumption DEF Total, IsChargeable

LEMMA FromMinorIsNat ==
    ASSUME NEW minor \in Nat
    PROVE  FromMinor(minor, Currency) \in Nat
BY FromMinorByCode, Tables, CurrencyAssumption

\* A payload's id names one checkout, and a session is no intent.
LEMMA IdsDistinct ==
    /\ \A c, d : IntentId(c) = IntentId(d) => c = d
    /\ \A c, d : SessionId(c) = SessionId(d) => c = d
    /\ \A c, d : SessionId(c) # IntentId(d)
    /\ \A c \in Checkout : IntentId(c) # None /\ SessionId(c) # None
BY IdAssumption DEF SessionId, IntentId

\* Where a status can be reached from.
LEMMA Sources ==
    ASSUME NEW s \in CheckoutStatus, NEW t, t \in Transitions(s)
    PROVE  /\ t \in CheckoutStatus
           /\ s \notin {"succeeded", "canceled", "expired"}
<1>1. CASE s = "open"
  BY <1>1 DEF Transitions, CheckoutStatus
<1>2. CASE s = "declined"
  BY <1>2 DEF Transitions, CheckoutStatus
<1>3. CASE s = "processing"
  BY <1>3 DEF Transitions, CheckoutStatus
<1>4. CASE s = "requires_capture"
  BY <1>4 DEF Transitions, CheckoutStatus
<1>5. CASE s \in {"succeeded", "canceled", "expired"}
  BY <1>5 DEF Transitions
<1> QED BY <1>1, <1>2, <1>3, <1>4, <1>5 DEF CheckoutStatus

-----------------------------------------------------------------------------
(* Truths last. *)

LEMMA TruthLasts ==
    ASSUME NEW old, NEW new, Grows(old, new), DOMAIN new \subseteq Checkout,
           NEW u, TellsTruth(u, old)
    PROVE  TellsTruth(u, new)
<1>1. u.external_id \in {None} \cup {IntentId(c) : c \in DOMAIN new}
  BY DEF TellsTruth, Grows
<1>2. ASSUME NEW c \in DOMAIN new, u.external_id = IntentId(c)
      PROVE  c \in DOMAIN old
  BY <1>2, IdsDistinct DEF TellsTruth
<1> QED BY <1>1, <1>2 DEF TellsTruth, Grows

LEMMA EventLasts ==
    ASSUME NEW old, NEW new, Grows(old, new), NEW e, EventTells(e, old)
    PROVE  EventTells(e, new)
<1>1. ASSUME e.type \in SessionEvents
      PROVE  e.obj.payment_intent \in {None} \cup {IntentId(c) : c \in DOMAIN new}
  BY <1>1 DEF EventTells, Grows
<1>2. ASSUME e.type \in ReviewEvents
      PROVE  \E c \in DOMAIN new :
               e.obj.id = ReviewId(c) /\ e.obj.payment_intent = IntentId(c)
  BY <1>2 DEF EventTells, Grows
<1>3. CASE e.type \in IntentEvents
  <2>1. e.type \notin SessionEvents \cup ReviewEvents
    BY <1>3 DEF SessionEvents, ReviewEvents, IntentEvents
  <2> QED BY <1>3, <2>1 DEF EventTells, Grows
<1> QED BY <1>1, <1>2, <1>3 DEF EventTells

LEMMA PluginLasts ==
    ASSUME PluginInv, Grows(order, order'), DOMAIN order' \subseteq Checkout,
           delivered' = delivered,
           UNCHANGED <<payment, polled>>,
           DOMAIN call' = Caller,
           \A k \in Caller : call'[k] = None \/ call'[k] = call[k],
           preparing' \subseteq preparing \cup DOMAIN order'
    PROVE  PluginInv'
<1>1. ASSUME NEW u, TellsTruth(u, order) PROVE TellsTruth(u, order')
  BY <1>1, TruthLasts
<1>2. PaymentOK(payment, order', delivered)
  BY <1>1 DEF PluginInv, PaymentOK, Bound, Grows
<1>3. PollOK(polled, order')
  BY <1>1 DEF PluginInv, PollOK, Grows
<1>4. ASSUME NEW k \in Caller PROVE CallOK(call'[k], order')
  BY DEF PluginInv, CallOK, Grows
<1>5. preparing' \subseteq DOMAIN order'
  BY DEF PluginInv, Grows
<1> QED BY <1>2, <1>3, <1>4, <1>5 DEF PluginInv

LEMMA ReportsLast ==
    ASSUME NEW c, NEW old, NEW new, Grows(old, new),
           NEW reports, NEW freed, ReportsOK(c, old, reports, freed),
           reports \in Seq(Report)
    PROVE  ReportsOK(c, new, reports, freed)
<1>1. CASE reports = <<>>
  BY <1>1 DEF ReportsOK, Grows
<1>2. CASE reports # <<>>
  BY <1>2 DEF ReportsOK, Grows
<1> QED BY <1>1, <1>2

LEMMA ReportInvLasts ==
    ASSUME ReportInv, Grows(order, order'), UNCHANGED <<charged, released>>
    PROVE  ReportInv'
BY ReportsLast DEF ReportInv

-----------------------------------------------------------------------------
(* Stripe's steps. *)

\* What a transition leaves of the order it changes, and of the others.
LEMMA TransitionEffect ==
    ASSUME OrdersOK(order), NEW c, NEW status, NEW fields,
           Transition(c, status, fields)
    PROVE  /\ c \in DOMAIN order /\ DOMAIN order' = DOMAIN order
           /\ OrderOK(order[c])
           /\ order[c].amount_received = 0
           /\ order[c].status \notin {"succeeded", "canceled", "expired"}
           /\ status \in CheckoutStatus /\ status # order[c].status
           /\ order'[c] = [f \in DOMAIN order[c] |->
                              IF f = "status" THEN status
                              ELSE IF f \in DOMAIN fields THEN fields[f]
                              ELSE order[c][f]]
           /\ \A d \in DOMAIN order : d # c => order'[d] = order[d]
<1>1. c \in DOMAIN order /\ OrderOK(order[c]) /\ status \in Transitions(order[c].status)
  BY DEF Transition, Exists, OrdersOK
<1>2. /\ order[c].status \notin {"succeeded", "canceled", "expired"}
      /\ status \in CheckoutStatus
  BY <1>1, Sources DEF OrderOK
<1>3. status # order[c].status
  BY <1>1, <1>2 DEF Transitions, CheckoutStatus
<1>4. order[c].amount_received = 0
  BY <1>1, <1>2 DEF OrderOK
<1>5. /\ DOMAIN order' = DOMAIN order
      /\ order'[c] = [f \in DOMAIN order[c] |->
                              IF f = "status" THEN status
                              ELSE IF f \in DOMAIN fields THEN fields[f]
                              ELSE order[c][f]]
      /\ \A d \in DOMAIN order : d # c => order'[d] = order[d]
  BY <1>1 DEF Transition
<1> QED BY <1>1, <1>2, <1>3, <1>4, <1>5

LEMMA TransitionStep ==
    ASSUME OrdersOK(order), NEW c, NEW status, NEW fields,
           Transition(c, status, fields), OrderOK(order'[c])
    PROVE  OrdersOK(order') /\ Grows(order, order')
<1>1. c \in DOMAIN order /\ order[c].status \notin {"succeeded", "canceled"}
  <2>1. c \in DOMAIN order /\ OrderOK(order[c])
    BY DEF Transition, Exists, OrdersOK
  <2> QED BY <2>1, Sources DEF Transition, OrderOK
<1>2. DOMAIN order' = DOMAIN order
  BY <1>1 DEF Transition
<1>3. \A d \in DOMAIN order : d # c => order'[d] = order[d]
  BY <1>1 DEF Transition
<1> QED BY <1>1, <1>2, <1>3 DEF OrdersOK, Grows

LEMMA SessionEventTells ==
    ASSUME NEW orders, NEW c \in DOMAIN orders, NEW type \in SessionEvents, NEW n
    PROVE  EventTells([type |-> type, obj |-> SessionObject(c, orders[c]), n |-> n],
                      orders)
BY DEF EventTells, SessionObject, SessionEvents, IntentEvents, ReviewEvents

LEMMA IntentEventTells ==
    ASSUME NEW orders, NEW c \in DOMAIN orders, NEW type \in IntentEvents, NEW n,
           type = "payment_intent.succeeded" => orders[c].status = "succeeded",
           type = "payment_intent.canceled" => orders[c].status = "canceled",
           type = "payment_intent.amount_capturable_updated" =>
               orders[c].amount_capturable = Total
    PROVE  EventTells(
               [type |-> type, obj |-> PaymentIntentObject(c, orders[c]), n |-> n],
               orders)
BY DEF EventTells, PaymentIntentObject, SessionEvents, IntentEvents, ReviewEvents

LEMMA ReviewEventTells ==
    ASSUME NEW c \in DOMAIN order, NEW type \in ReviewEvents, NEW reason
    PROVE  EventTells(ReviewEvent(c, type, reason), order)
BY DEF EventTells, ReviewEvent, ReviewObject, SessionEvents, IntentEvents, ReviewEvents

LEMMA EmitStep ==
    ASSUME StripeInv, OrdersOK(order'), Grows(order, order'),
           attempts' \in [Checkout -> 0..MaxAttempts],
           NEW new, Emit(new), \A e \in new : EventTells(e, order'),
           UNCHANGED delivered
    PROVE  StripeInv'
<1>1. ASSUME NEW e \in events PROVE EventTells(e, order')
  BY EventLasts DEF StripeInv
<1> QED BY <1>1 DEF StripeInv, Emit

\* The buyer's moves.
LEMMA AttemptStep ==
    ASSUME StripeInv, NEW c \in Checkout, NEW status, NEW fields,
           Attempt(c, status, fields)
    PROVE  /\ Transition(c, status, fields)
           /\ attempts' \in [Checkout -> 0..MaxAttempts]
BY MaxAttemptsAssumption DEF StripeInv, Attempt

LEMMA OrderFields ==
    ASSUME NEW o, OrderOK(o)
    PROVE  DOMAIN o = {"owner", "capture_method", "status", "has_payment_intent",
                       "amount_capturable", "amount_received"}
BY DEF OrderOK, NewOrder
\* Fields a transition may set so that the order stays well formed.
FieldsOK(status, fields) ==
    /\ DOMAIN fields \subseteq
           {"has_payment_intent", "amount_capturable", "amount_received"}
    /\ "has_payment_intent" \in DOMAIN fields => fields.has_payment_intent = TRUE
    /\ "amount_capturable" \in DOMAIN fields =>
           fields.amount_capturable \in {0, Total}
    /\ "amount_received" \in DOMAIN fields =>
           fields.amount_received \in 0..Total /\ status = "succeeded"
    /\ status = "requires_capture" =>
           "amount_capturable" \in DOMAIN fields /\ fields.amount_capturable = Total

LEMMA GoodTransition ==
    ASSUME OrdersOK(order), NEW c, NEW status, NEW fields,
           Transition(c, status, fields), FieldsOK(status, fields)
    PROVE  /\ OrdersOK(order') /\ Grows(order, order')
           /\ c \in DOMAIN order /\ c \in DOMAIN order'
           /\ order[c].status \notin {"succeeded", "canceled", "expired"}
           /\ order'[c].status = status
           /\ \A f \in DOMAIN fields : order'[c][f] = fields[f]
<1>1. /\ c \in DOMAIN order /\ DOMAIN order' = DOMAIN order /\ OrderOK(order[c])
      /\ order[c].amount_received = 0
      /\ order[c].status \notin {"succeeded", "canceled", "expired"}
      /\ status \in CheckoutStatus
      /\ order'[c] = [f \in DOMAIN order[c] |->
                          IF f = "status" THEN status
                          ELSE IF f \in DOMAIN fields THEN fields[f]
                          ELSE order[c][f]]
  BY TransitionEffect
<1>2. Total \in Nat
  BY <1>1, TotalFacts DEF OrderOK
<1> DEFINE o == order[c]
           n == order'[c]
<1>3. /\ DOMAIN o = {"owner", "capture_method", "status", "has_payment_intent",
                     "amount_capturable", "amount_received"}
      /\ DOMAIN n = DOMAIN o
      /\ n.status = status
      /\ n.owner = o.owner /\ n.capture_method = o.capture_method
      /\ \A f \in DOMAIN fields : n[f] = fields[f]
      /\ \A f \in DOMAIN o \ {"status"} : f \notin DOMAIN fields => n[f] = o[f]
  BY <1>1, OrderFields DEF FieldsOK
<1>4. /\ n.has_payment_intent \in BOOLEAN
      /\ n.amount_capturable \in {0, Total}
      /\ status = "requires_capture" => n.amount_capturable = Total
  BY <1>1, <1>3 DEF OrderOK, FieldsOK
<1>5. n.amount_received \in 0..Total /\ (status # "succeeded" => n.amount_received = 0)
  BY <1>1, <1>2, <1>3 DEF OrderOK, FieldsOK
<1>6. OrderOK(n)
  BY <1>1, <1>3, <1>4, <1>5 DEF OrderOK
<1>7. OrdersOK(order') /\ Grows(order, order')
  BY <1>6, TransitionStep
<1> QED BY <1>1, <1>3, <1>7

\* An order's total is a number as long as it exists.
LEMMA TotalIsNat ==
    ASSUME OrdersOK(order), NEW c \in DOMAIN order
    PROVE  Total \in Nat
BY TotalFacts DEF OrdersOK, OrderOK

LEMMA CaptureStep ==
    ASSUME StripeInv, NEW c \in Checkout, NEW amount, CaptureIntent(c, amount),
           UNCHANGED delivered
    PROVE  /\ StripeInv' /\ Grows(order, order') /\ c \in DOMAIN order'
           /\ order[c].status = "requires_capture"
           /\ order'[c].status = "succeeded"
           /\ order'[c].amount_received = amount
<1> DEFINE fields == [amount_received |-> amount, amount_capturable |-> 0]
<1>1. /\ c \in DOMAIN order /\ order[c].status = "requires_capture"
      /\ amount \in 1..order[c].amount_capturable
      /\ Transition(c, "succeeded", fields)
      /\ UNCHANGED attempts /\ Emit({IntentEvent(c, "payment_intent.succeeded")})
  BY DEF CaptureIntent, StatusIs, Exists
<1>2. OrdersOK(order)
  BY DEF StripeInv
<1>3. amount \in 0..Total
  BY <1>1, <1>2, TotalIsNat DEF OrdersOK, OrderOK
<1>4. FieldsOK("succeeded", fields)
  BY <1>3 DEF FieldsOK
<1>5. /\ OrdersOK(order') /\ Grows(order, order') /\ c \in DOMAIN order'
      /\ order'[c].status = "succeeded" /\ order'[c].amount_received = amount
  BY <1>1, <1>2, <1>4, GoodTransition
<1>6. EventTells(IntentEvent(c, "payment_intent.succeeded"), order')
  BY <1>5, IntentEventTells DEF IntentEvent, IntentEvents
<1>7. StripeInv'
  BY <1>1, <1>5, <1>6, EmitStep DEF StripeInv
<1> QED BY <1>1, <1>5, <1>7

LEMMA CancelStep ==
    ASSUME StripeInv, NEW c \in Checkout, CancelIntent(c), UNCHANGED delivered
    PROVE  /\ StripeInv' /\ Grows(order, order') /\ c \in DOMAIN order'
           /\ c \in DOMAIN order /\ order[c].status \notin {"succeeded", "canceled"}
           /\ order'[c].status = "canceled"
<1> DEFINE fields == [amount_capturable |-> 0]
<1>1. /\ Transition(c, "canceled", fields)
      /\ UNCHANGED attempts /\ Emit({IntentEvent(c, "payment_intent.canceled")})
  BY DEF CancelIntent
<1>2. OrdersOK(order) /\ FieldsOK("canceled", fields)
  BY DEF StripeInv, FieldsOK
<1>3. /\ OrdersOK(order') /\ Grows(order, order')
      /\ c \in DOMAIN order /\ c \in DOMAIN order'
      /\ order[c].status \notin {"succeeded", "canceled"}
      /\ order'[c].status = "canceled"
  BY <1>1, <1>2, GoodTransition
<1>4. EventTells(IntentEvent(c, "payment_intent.canceled"), order')
  BY <1>3, IntentEventTells DEF IntentEvent, IntentEvents
<1>5. StripeInv'
  BY <1>1, <1>3, <1>4, EmitStep DEF StripeInv
<1> QED BY <1>3, <1>5

LEMMA BuyerStep ==
    ASSUME StripeInv, NEW c \in Checkout, Buyer(c), UNCHANGED delivered
    PROVE  StripeInv' /\ Grows(order, order')
<1> USE DEF StripeInv
<1> DEFINE paid == [has_payment_intent |-> TRUE]
           held == [has_payment_intent |-> TRUE, amount_capturable |-> Total]
           got == [has_payment_intent |-> TRUE, amount_received |-> Total]
<1>1. CASE Decline(c)
  <2>1. /\ Transition(c, "declined", paid) /\ FieldsOK("declined", paid)
        /\ attempts' \in [Checkout -> 0..MaxAttempts]
        /\ Emit({IntentEvent(c, "payment_intent.payment_failed")})
    BY <1>1, AttemptStep DEF Decline, FieldsOK
  <2>2. OrdersOK(order') /\ Grows(order, order') /\ c \in DOMAIN order'
    BY <2>1, GoodTransition
  <2>3. EventTells(IntentEvent(c, "payment_intent.payment_failed"), order')
    BY <2>2, IntentEventTells DEF IntentEvent, IntentEvents
  <2> QED BY <2>1, <2>2, <2>3, EmitStep
<1>2. CASE PayDelayed(c)
  <2>1. /\ Transition(c, "processing", paid) /\ FieldsOK("processing", paid)
        /\ attempts' \in [Checkout -> 0..MaxAttempts]
        /\ Emit({SessionEvent(c, "checkout.session.completed")})
    BY <1>2, AttemptStep DEF PayDelayed, FieldsOK
  <2>2. OrdersOK(order') /\ Grows(order, order') /\ c \in DOMAIN order'
    BY <2>1, GoodTransition
  <2>3. EventTells(SessionEvent(c, "checkout.session.completed"), order')
    BY <2>2, SessionEventTells DEF SessionEvent, SessionEvents
  <2> QED BY <2>1, <2>2, <2>3, EmitStep
<1>3. CASE PayManual(c)
  <2>1. /\ Transition(c, "requires_capture", held)
        /\ FieldsOK("requires_capture", held)
        /\ attempts' \in [Checkout -> 0..MaxAttempts]
        /\ Emit({SessionEvent(c, "checkout.session.completed"),
                 IntentEvent(c, "payment_intent.amount_capturable_updated")})
    BY <1>3, AttemptStep DEF PayManual, FieldsOK
  <2>2. /\ OrdersOK(order') /\ Grows(order, order') /\ c \in DOMAIN order'
        /\ order'[c].amount_capturable = Total
    BY <2>1, GoodTransition
  <2>3. EventTells(SessionEvent(c, "checkout.session.completed"), order')
    BY <2>2, SessionEventTells DEF SessionEvent, SessionEvents
  <2>4. EventTells(IntentEvent(c, "payment_intent.amount_capturable_updated"), order')
    BY <2>2, IntentEventTells DEF IntentEvent, IntentEvents
  <2> QED BY <2>1, <2>2, <2>3, <2>4, EmitStep
<1>4. CASE PayAutomatic(c)
  <2>1. /\ Transition(c, "succeeded", got)
        /\ attempts' \in [Checkout -> 0..MaxAttempts]
        /\ Emit({SessionEvent(c, "checkout.session.completed"),
                 IntentEvent(c, "payment_intent.succeeded")})
    BY <1>4, AttemptStep DEF PayAutomatic
  <2>2. FieldsOK("succeeded", got)
    BY <2>1, TotalIsNat DEF FieldsOK, Transition, Exists
  <2>3. /\ OrdersOK(order') /\ Grows(order, order') /\ c \in DOMAIN order'
        /\ order'[c].status = "succeeded"
    BY <2>1, <2>2, GoodTransition
  <2>4. EventTells(SessionEvent(c, "checkout.session.completed"), order')
    BY <2>3, SessionEventTells DEF SessionEvent, SessionEvents
  <2>5. EventTells(IntentEvent(c, "payment_intent.succeeded"), order')
    BY <2>3, IntentEventTells DEF IntentEvent, IntentEvents
  <2> QED BY <2>1, <2>3, <2>4, <2>5, EmitStep
<1> QED BY <1>1, <1>2, <1>3, <1>4 DEF Buyer

LEMMA StripeStep ==
    ASSUME StripeInv, NEW c \in Checkout, StripeActs(c)
    PROVE  StripeInv' /\ Grows(order, order')
<1> USE DEF StripeInv
<1>1. UNCHANGED delivered
  BY DEF StripeActs
<1>2. CASE Buyer(c)
  BY <1>1, <1>2, BuyerStep
<1>3. CASE ExpireSession(c)
  <2>1. /\ Transition(c, "expired", <<>>) /\ UNCHANGED attempts
        /\ Emit({SessionEvent(c, "checkout.session.expired")})
    BY <1>3 DEF ExpireSession
  <2>2. FieldsOK("expired", <<>>)
    BY DEF FieldsOK
  <2>3. OrdersOK(order') /\ Grows(order, order') /\ c \in DOMAIN order'
    BY <2>1, <2>2, GoodTransition
  <2>4. EventTells(SessionEvent(c, "checkout.session.expired"), order')
    BY <2>3, SessionEventTells DEF SessionEvent, SessionEvents
  <2> QED BY <1>1, <2>1, <2>3, <2>4, EmitStep
<1>4. CASE SettleDelayed(c)
  <2> DEFINE fields == [amount_received |-> Total]
  <2>1. /\ Transition(c, "succeeded", fields) /\ UNCHANGED attempts
        /\ Emit({IntentEvent(c, "payment_intent.succeeded")})
    BY <1>4 DEF SettleDelayed
  <2>2. FieldsOK("succeeded", fields)
    BY <2>1, TotalIsNat DEF FieldsOK, Transition, Exists
  <2>3. /\ OrdersOK(order') /\ Grows(order, order') /\ c \in DOMAIN order'
        /\ order'[c].status = "succeeded"
    BY <2>1, <2>2, GoodTransition
  <2>4. EventTells(IntentEvent(c, "payment_intent.succeeded"), order')
    BY <2>3, IntentEventTells DEF IntentEvent, IntentEvents
  <2> QED BY <1>1, <2>1, <2>3, <2>4, EmitStep
<1>5. CASE FailDelayed(c)
  <2>1. /\ Transition(c, "declined", <<>>) /\ UNCHANGED attempts
        /\ Emit({IntentEvent(c, "payment_intent.payment_failed")})
    BY <1>5 DEF FailDelayed
  <2>2. FieldsOK("declined", <<>>)
    BY DEF FieldsOK
  <2>3. OrdersOK(order') /\ Grows(order, order') /\ c \in DOMAIN order'
    BY <2>1, <2>2, GoodTransition
  <2>4. EventTells(IntentEvent(c, "payment_intent.payment_failed"), order')
    BY <2>3, IntentEventTells DEF IntentEvent, IntentEvents
  <2> QED BY <1>1, <2>1, <2>3, <2>4, EmitStep
<1>6. CASE CancelIntent(c)
  BY <1>1, <1>6, CancelStep
<1>7. CASE OpenReview(c)
  <2>1. /\ c \in DOMAIN order /\ Emit({ReviewEvent(c, "review.opened", None)})
        /\ UNCHANGED <<order, attempts>>
    BY <1>7 DEF OpenReview, StatusIs, Exists
  <2>2. EventTells(ReviewEvent(c, "review.opened", None), order)
    BY <2>1, ReviewEventTells DEF ReviewEvents
  <2>3. Grows(order, order')
    BY <2>1 DEF Grows
  <2> QED BY <1>1, <2>1, <2>2, <2>3 DEF Emit
<1>8. CASE CloseReview(c)
  <2>1. /\ ReviewIs(c, "review.opened") /\ UNCHANGED <<order, attempts>>
        /\ \E reason \in {"approved", "refunded"} :
             Emit({ReviewEvent(c, "review.closed", reason)})
    BY <1>8 DEF CloseReview
  <2>2. c \in DOMAIN order
    <3>1. PICK e \in events : e.type = "review.opened" /\ e.obj.id = ReviewId(c)
      BY <2>1 DEF ReviewIs
    <3>2. PICK d \in DOMAIN order : e.obj.id = ReviewId(d)
      BY <3>1 DEF EventTells, ReviewEvents
    <3> QED BY <3>1, <3>2 DEF ReviewId
  <2>3. ASSUME NEW reason PROVE EventTells(ReviewEvent(c, "review.closed", reason), order)
    BY <2>2, ReviewEventTells DEF ReviewEvents
  <2>4. Grows(order, order')
    BY <2>1 DEF Grows
  <2> QED BY <1>1, <2>1, <2>3, <2>4 DEF Emit
<1> QED BY <1>2, <1>3, <1>4, <1>5, <1>6, <1>7, <1>8 DEF StripeActs
-----------------------------------------------------------------------------
(* What the mappers say is true. *)

LEMMA SessionUpdateTells ==
    ASSUME NEW orders, NEW e, e.type \in SessionEvents, EventTells(e, orders)
    PROVE  LET u == MapSessionEvent(e) IN
             u.provider_event_id = e /\ TellsTruth(u, orders)
<1>1. e.obj.payment_intent \in {None} \cup {IntentId(c) : c \in DOMAIN orders}
  BY DEF EventTells
<1>2. CASE e.type = "checkout.session.completed"
  <2>1. MapSessionEvent(e) = PaymentUpdate(None, 0, e.obj.payment_intent, e)
    BY <1>2 DEF MapSessionEvent
  <2>2. None \notin {"PAYMENT_CAPTURED", "LOCKED", "LOCK_RELEASED"}
    BY NoneAssumption DEF PaymentEvent
  <2> QED BY <1>1, <2>1, <2>2 DEF PaymentUpdate, TellsTruth
<1>3. CASE e.type = "checkout.session.expired"
  <2>1. MapSessionEvent(e) = PaymentUpdate("FAILED", 0, e.obj.payment_intent, e)
    BY <1>3 DEF MapSessionEvent, FailedUpdate
  <2> QED BY <1>1, <2>1 DEF PaymentUpdate, TellsTruth
<1> QED BY <1>2, <1>3 DEF SessionEvents

LEMMA IntentUpdateTells ==
    ASSUME NEW orders, OrdersOK(orders),
           NEW e, e.type \in IntentEvents, EventTells(e, orders)
    PROVE  LET u == MapPaymentIntentEvent(e) IN
             u.provider_event_id = e /\ TellsTruth(u, orders)
<1>1. PICK d \in DOMAIN orders :
           /\ e.obj.id = IntentId(d)
           /\ e.type = "payment_intent.succeeded" =>
                /\ orders[d].status = "succeeded"
                /\ e.obj.amount_received = orders[d].amount_received
           /\ e.type = "payment_intent.amount_capturable_updated" =>
                e.obj.amount_capturable = Total
           /\ e.type = "payment_intent.canceled" =>
                /\ orders[d].status = "canceled"
                /\ e.obj.capture_method = orders[d].capture_method
  BY DEF EventTells
<1>2. \A c \in DOMAIN orders : IntentId(c) = e.obj.id => c = d
  BY <1>1, IdsDistinct
<1>3. CASE e.type = "payment_intent.amount_capturable_updated"
  <2>1. MapPaymentIntentEvent(e)
          = PaymentUpdate("LOCKED", FromMinor(Total, Currency), e.obj.id, e)
    BY <1>1, <1>3 DEF MapPaymentIntentEvent, LockedUpdate
  <2> QED BY <1>1, <2>1 DEF PaymentUpdate, TellsTruth
<1>4. CASE e.type = "payment_intent.succeeded"
  <2>1. MapPaymentIntentEvent(e)
          = PaymentUpdate("PAYMENT_CAPTURED",
                          FromMinor(orders[d].amount_received, Currency), e.obj.id, e)
    BY <1>1, <1>4 DEF MapPaymentIntentEvent, CapturedUpdate
  <2> QED BY <1>1, <1>2, <1>4, <2>1 DEF PaymentUpdate, TellsTruth
<1>5. CASE e.type = "payment_intent.payment_failed"
  <2>1. MapPaymentIntentEvent(e) = PaymentUpdate("FAILED", 0, e.obj.id, e)
    BY <1>5 DEF MapPaymentIntentEvent, FailedUpdate
  <2> QED BY <1>1, <2>1 DEF PaymentUpdate, TellsTruth
<1>6. CASE e.type = "payment_intent.canceled"
  <2>1. orders[d].status = "canceled" /\ orders[d].amount_received = 0
    BY <1>1, <1>6 DEF OrdersOK, OrderOK
  <2>2. MapPaymentIntentEvent(e)
          = IF orders[d].capture_method = "manual"
            THEN PaymentUpdate("LOCK_RELEASED", 0, e.obj.id, e)
            ELSE PaymentUpdate("FAILED", 0, e.obj.id, e)
    BY <1>1, <1>6 DEF MapPaymentIntentEvent, CanceledUpdate, FailedUpdate
  <2>3. CASE orders[d].capture_method = "manual"
    BY <1>1, <1>2, <2>1, <2>2, <2>3 DEF PaymentUpdate, TellsTruth
  <2>4. CASE orders[d].capture_method # "manual"
    BY <1>1, <2>2, <2>4 DEF PaymentUpdate, TellsTruth
  <2> QED BY <2>3, <2>4
<1> QED BY <1>3, <1>4, <1>5, <1>6 DEF IntentEvents

LEMMA ReviewUpdateTells ==
    ASSUME NEW orders, NEW e, e.type \in ReviewEvents, EventTells(e, orders)
    PROVE  LET u == MapReviewEvent(e) IN
             u.provider_event_id = e /\ TellsTruth(u, orders)
<1>1. e.obj.payment_intent \in {IntentId(c) : c \in DOMAIN orders}
  BY DEF EventTells
<1>2. \E said \in {"REVIEW", "ACCEPT", "REJECT"} :
        MapReviewEvent(e) = PaymentUpdate(said, 0, e.obj.payment_intent, e)
  BY DEF MapReviewEvent, ReviewEvents
<1> QED BY <1>1, <1>2 DEF PaymentUpdate, TellsTruth

\* handle_callback() ignores an event, or maps it to an update that names it and
\* tells the truth.
LEMMA CallbackTells ==
    ASSUME NEW orders, OrdersOK(orders), NEW local, NEW e, EventTells(e, orders),
           HandleCallback(local, e) # None
    PROVE  LET u == HandleCallback(local, e) IN
             u.provider_event_id = e /\ TellsTruth(u, orders)
<1>1. IsCorrelated(local, e.obj)
  BY DEF HandleCallback
<1>2. CASE e.type \in SessionEvents
  <2>1. e.type \notin IntentEvents \cup ReviewEvents
    BY <1>2 DEF SessionEvents, IntentEvents, ReviewEvents
  <2>2. HandleCallback(local, e) = MapSessionEvent(e)
    BY <1>1, <1>2, <2>1 DEF HandleCallback
  <2> QED BY <1>2, <2>2, SessionUpdateTells
<1>3. CASE e.type \in IntentEvents
  <2>1. e.type \notin SessionEvents \cup ReviewEvents
    BY <1>3 DEF SessionEvents, IntentEvents, ReviewEvents
  <2>2. HandleCallback(local, e) = MapPaymentIntentEvent(e)
    BY <1>1, <1>3, <2>1 DEF HandleCallback
  <2> QED BY <1>3, <2>2, IntentUpdateTells
<1>4. CASE e.type \in ReviewEvents
  <2>1. e.type \notin SessionEvents \cup IntentEvents
    BY <1>4 DEF SessionEvents, IntentEvents, ReviewEvents
  <2>2. HandleCallback(local, e) = MapReviewEvent(e)
    BY <1>1, <1>4, <2>1 DEF HandleCallback
  <2> QED BY <1>4, <2>2, ReviewUpdateTells
<1>5. CASE e.type \notin SessionEvents \cup IntentEvents \cup ReviewEvents
  BY <1>1, <1>5 DEF HandleCallback
<1> QED BY <1>2, <1>3, <1>4, <1>5

\* What a poll of an intent answers.
LEMMA PulledTells ==
    ASSUME NEW orders, OrdersOK(orders), NEW c \in DOMAIN orders,
           MapPulledIntent(PaymentIntentObject(c, orders[c])) # None
    PROVE  LET u == MapPulledIntent(PaymentIntentObject(c, orders[c])) IN
             u.provider_event_id = None /\ TellsTruth(u, orders)
<1> DEFINE o == orders[c]
           obj == PaymentIntentObject(c, o)
           u == MapPulledIntent(obj)
<1>1. OrderOK(o)
  BY DEF OrdersOK
<1>2. /\ obj.id = IntentId(c) /\ obj.status = PaymentIntentStatus(o)
      /\ obj.amount_capturable = o.amount_capturable
      /\ obj.amount_received = o.amount_received
      /\ obj.capture_method = o.capture_method
  BY DEF PaymentIntentObject
<1>3. \A d \in DOMAIN orders : IntentId(d) = obj.id => d = c
  BY <1>2, IdsDistinct
<1>4. CASE obj.status = "requires_capture"
  <2>1. o.amount_capturable = Total
    BY <1>1, <1>2, <1>4 DEF OrderOK, PaymentIntentStatus
  <2>2. u = PaymentUpdate("LOCKED", FromMinor(Total, Currency), obj.id, None)
    BY <1>2, <1>4, <2>1 DEF MapPulledIntent, LockedUpdate
  <2> QED BY <1>2, <2>2 DEF PaymentUpdate, TellsTruth
<1>5. CASE obj.status = "succeeded"
  <2>1. o.status = "succeeded"
    BY <1>2, <1>5 DEF PaymentIntentStatus
  <2>2. u = PaymentUpdate("PAYMENT_CAPTURED", FromMinor(o.amount_received, Currency),
                          obj.id, None)
    BY <1>2, <1>5 DEF MapPulledIntent, CapturedUpdate
  <2> QED BY <1>2, <1>3, <2>1, <2>2 DEF PaymentUpdate, TellsTruth
<1>6. CASE obj.status = "canceled"
  <2>1. o.status = "canceled" /\ o.amount_received = 0
    BY <1>1, <1>2, <1>6 DEF PaymentIntentStatus, OrderOK
  <2>2. u = IF o.capture_method = "manual"
            THEN PaymentUpdate("LOCK_RELEASED", 0, obj.id, None)
            ELSE PaymentUpdate("FAILED", 0, obj.id, None)
    BY <1>2, <1>6 DEF MapPulledIntent, CanceledUpdate, FailedUpdate
  <2>3. CASE o.capture_method = "manual"
    BY <1>2, <1>3, <2>1, <2>2, <2>3 DEF PaymentUpdate, TellsTruth
  <2>4. CASE o.capture_method # "manual"
    BY <1>2, <2>2, <2>4 DEF PaymentUpdate, TellsTruth
  <2> QED BY <2>3, <2>4
<1>7. CASE obj.status \notin {"requires_capture", "succeeded", "canceled"}
  BY <1>7 DEF MapPulledIntent
<1> QED BY <1>4, <1>5, <1>6, <1>7

\* Applying a true update keeps the payment's updates true.
LEMMA ApplyTells ==
    ASSUME NEW orders, OrdersOK(orders), NEW p, NEW seen, PaymentOK(p, orders, seen),
           NEW update,
           update # None =>
               /\ TellsTruth(update, orders)
               /\ update.provider_event_id \in {None} \cup seen
    PROVE  PaymentOK(ApplyPaymentUpdate(p, update), orders, seen)
<1> DEFINE q == ApplyPaymentUpdate(p, update)
<1>1. CASE q = p
  BY <1>1
<1>2. CASE q # p
  <2>1. /\ update # None
        /\ q = [p EXCEPT !.external_id = IF update.external_id = None
                                         THEN p.external_id ELSE update.external_id,
                         !.applied = p.applied \cup {update}]
    BY <1>2 DEF ApplyPaymentUpdate
  <2>2. DOMAIN p = {"id", "external_id", "applied"}
    BY DEF PaymentOK, NewPayment
  <2>3. /\ DOMAIN q = DOMAIN p /\ q.id = p.id
        /\ q.applied = p.applied \cup {update}
        /\ q.external_id = IF update.external_id = None
                           THEN p.external_id ELSE update.external_id
    BY <2>1, <2>2
  <2>4. update.external_id \in {None} \cup {IntentId(c) : c \in DOMAIN orders}
    BY <2>1 DEF TellsTruth
  <2>5. q.external_id \in {None} \cup Bound(orders)
    BY <2>3, <2>4 DEF PaymentOK, Bound
  <2>6. AppliedEventIds(q) \subseteq seen
    BY <2>1, <2>3 DEF PaymentOK, AppliedEventIds
  <2> QED BY <2>1, <2>3, <2>5, <2>6 DEF PaymentOK
<1> QED BY <1>1, <1>2
-----------------------------------------------------------------------------
(* The plugin's steps, and the invariant. *)

LEMMA StripeActsStep ==
    ASSUME PInv, NEW c \in Checkout, StripeActs(c)
    PROVE  PInv'
<1>1. StripeInv' /\ Grows(order, order')
  BY StripeStep DEF PInv
<1>2. UNCHANGED <<delivered, payment, preparing, call, polled, charged, released>>
  BY DEF StripeActs, plugin
<1>3. DOMAIN order' \subseteq Checkout
  BY <1>1 DEF StripeInv, OrdersOK
<1>4. PluginInv'
  BY <1>1, <1>2, <1>3, PluginLasts DEF PInv, PluginInv
<1>5. ReportInv'
  BY <1>1, <1>2, ReportInvLasts DEF PInv
<1> QED BY <1>1, <1>4, <1>5 DEF PInv

LEMMA PrepareStep ==
    ASSUME PInv, NEW c \in Checkout, NEW capture_method \in {"automatic", "manual"},
           Prepare(c, capture_method)
    PROVE  PInv'
<1> DEFINE new == NewOrder(PaymentId, capture_method)
<1>1. /\ ~ForbidsFraction(Amount, Currency)
      /\ c \notin DOMAIN order
      /\ order' = [b \in DOMAIN order \cup {c} |-> IF b = c THEN new ELSE order[b]]
      /\ preparing' = preparing \cup {c}
      /\ UNCHANGED <<attempts, events, delivered, payment, call, polled, charged,
                     released>>
  BY DEF Prepare, Exists
<1>2. /\ DOMAIN order' = DOMAIN order \cup {c} /\ order'[c] = new
      /\ \A b \in DOMAIN order : order'[b] = order[b]
  BY <1>1
<1>3. Grows(order, order')
  BY <1>2 DEF Grows
<1>4. OrderOK(new)
  BY <1>1, TotalFacts DEF OrderOK, NewOrder, CheckoutStatus
<1>5. OrdersOK(order')
  BY <1>2, <1>4 DEF OrdersOK, PInv, StripeInv
<1>6. StripeInv'
  BY <1>1, <1>3, <1>5, EventLasts DEF PInv, StripeInv
<1>7. PluginInv'
  BY <1>1, <1>2, <1>3, <1>5, PluginLasts DEF PInv, PluginInv, OrdersOK
<1>8. ReportInv'
  BY <1>1, <1>3, ReportInvLasts DEF PInv
<1> QED BY <1>6, <1>7, <1>8 DEF PInv

LEMMA SavePreparedStep ==
    ASSUME PInv, NEW c \in Checkout, SavePrepared(c)
    PROVE  PInv'
<1>1. /\ c \in DOMAIN order /\ preparing' = preparing \ {c}
      /\ payment' = [payment EXCEPT !.external_id = SessionId(c)]
      /\ UNCHANGED <<order, attempts, events, delivered, call, polled, charged,
                     released>>
  BY DEF SavePrepared, stripe, PInv, PluginInv
<1>2. PaymentOK(payment, order, delivered)
  BY DEF PInv, PluginInv
<1>3. /\ DOMAIN payment' = DOMAIN payment /\ payment'.id = payment.id
      /\ payment'.applied = payment.applied /\ payment'.external_id = SessionId(c)
  BY <1>1, <1>2 DEF PaymentOK, NewPayment
<1>4. PaymentOK(payment', order, delivered)
  BY <1>1, <1>2, <1>3 DEF PaymentOK, Bound, AppliedEventIds
<1>5. StripeInv'
  BY <1>1 DEF PInv, StripeInv
<1>6. PluginInv'
  BY <1>1, <1>4 DEF PInv, PluginInv
<1>7. ReportInv'
  BY <1>1 DEF PInv, ReportInv
<1> QED BY <1>5, <1>6, <1>7 DEF PInv

LEMMA CallbackStep ==
    ASSUME PInv, NEW e \in events, Callback(e)
    PROVE  PInv'
<1> DEFINE update == HandleCallback(payment, e)
<1>1. /\ delivered' = delivered \cup {e}
      /\ payment' = ApplyPaymentUpdate(payment, update)
      /\ UNCHANGED <<order, attempts, events, preparing, call, polled, charged,
                     released>>
  BY DEF Callback, Apply, stripe
<1>2. OrdersOK(order) /\ EventTells(e, order)
  BY DEF PInv, StripeInv
<1>3. update # None =>
          TellsTruth(update, order) /\ update.provider_event_id \in {None} \cup delivered'
  BY <1>1, <1>2, CallbackTells
<1>4. PaymentOK(payment, order, delivered')
  BY <1>1 DEF PInv, PluginInv, PaymentOK
<1>5. PaymentOK(payment', order, delivered')
  BY <1>1, <1>2, <1>3, <1>4, ApplyTells
<1>6. StripeInv'
  BY <1>1 DEF PInv, StripeInv
<1>7. PluginInv'
  BY <1>1, <1>5 DEF PInv, PluginInv
<1>8. ReportInv'
  BY <1>1 DEF PInv, ReportInv
<1> QED BY <1>6, <1>7, <1>8 DEF PInv

\* A poll changes nothing but what it carries.
LEMMA PollStep ==
    ASSUME PInv, UNCHANGED <<stripe, delivered, payment, preparing, call, charged, released>>,
           PollOK(polled', order)
    PROVE  PInv'
<1>1. UNCHANGED <<order, attempts, events, delivered, payment, preparing, call,
                  charged, released>>
  BY DEF stripe
<1>2. StripeInv'
  BY <1>1 DEF PInv, StripeInv
<1>3. PluginInv'
  BY <1>1 DEF PInv, PluginInv
<1>4. ReportInv'
  BY <1>1 DEF PInv, ReportInv
<1> QED BY <1>2, <1>3, <1>4 DEF PInv

\* The id a payment is bound to names an order that exists.
LEMMA BoundExists ==
    ASSUME PInv, NEW c \in Checkout,
           payment.external_id \in {SessionId(c), IntentId(c)}
    PROVE  c \in DOMAIN order
BY IdsDistinct DEF PInv, PluginInv, PaymentOK, Bound

LEMMA PollSessionStep ==
    ASSUME PInv, NEW c \in Checkout, PollSession(c)
    PROVE  PInv'
<1> DEFINE session == SessionObject(c, order[c])
           update == FailedUpdate(session, None, None)
<1>1. c \in DOMAIN order
  BY BoundExists DEF PollSession
<1>2. \/ polled' = <<"update", update>> \/ polled' = None \/ polled' = <<"intent", c>>
  BY DEF PollSession, PollAnswers
<1>3. update.provider_event_id = None /\ TellsTruth(update, order)
  <2>1. \A d \in DOMAIN order : None # IntentId(d)
    BY IdsDistinct DEF PInv, StripeInv, OrdersOK
  <2> QED BY <2>1 DEF FailedUpdate, PaymentUpdate, TellsTruth
<1>4. PollOK(polled', order)
  BY <1>1, <1>2, <1>3 DEF PollOK
<1> QED BY <1>4, PollStep DEF PollSession

LEMMA PollIntentStep ==
    ASSUME PInv, NEW c \in Checkout, PollIntent(c)
    PROVE  PInv'
<1> DEFINE update == MapPulledIntent(PaymentIntentObject(c, order[c]))
<1>1. c \in DOMAIN order
  <2>1. CASE polled = <<"intent", c>>
    <3>1. polled # None
      BY <2>1, IdAssumption
    <3>2. PollOK(polled, order)
      BY DEF PInv, PluginInv
    <3> QED BY <2>1, <3>1, <3>2 DEF PollOK
  <2>2. CASE payment.external_id = IntentId(c)
    BY <2>2, BoundExists
  <2> QED BY <2>1, <2>2 DEF PollIntent
<1>2. polled' = IF update = None THEN None ELSE <<"update", update>>
  BY DEF PollIntent, PollAnswers
<1>3. OrdersOK(order)
  BY DEF PInv, StripeInv
<1>4. update # None => update.provider_event_id = None /\ TellsTruth(update, order)
  BY <1>1, <1>3, PulledTells
<1>5. PollOK(polled', order)
  BY <1>2, <1>4 DEF PollOK
<1> QED BY <1>5, PollStep DEF PollIntent

LEMMA ApplyPolledStep ==
    ASSUME PInv, ApplyPolled
    PROVE  PInv'
<1>1. /\ polled # None /\ polled[1] = "update" /\ polled' = None
      /\ payment' = ApplyPaymentUpdate(payment, polled[2])
      /\ UNCHANGED <<order, attempts, events, delivered, preparing, call, charged,
                     released>>
  BY DEF ApplyPolled, Apply, stripe
<1>2. polled[2].provider_event_id = None /\ TellsTruth(polled[2], order)
  BY <1>1 DEF PInv, PluginInv, PollOK
<1>3. PaymentOK(payment', order, delivered)
  BY <1>1, <1>2, ApplyTells DEF PInv, StripeInv, PluginInv
<1>4. StripeInv'
  BY <1>1 DEF PInv, StripeInv
<1>5. PluginInv'
  BY <1>1, <1>3 DEF PInv, PluginInv, PollOK
<1>6. ReportInv'
  BY <1>1 DEF PInv, ReportInv
<1> QED BY <1>4, <1>5, <1>6 DEF PInv

\* charge() and release_lock() start by reading the intent they are bound to.
LEMMA RetrieveStep ==
    ASSUME PInv, NEW k \in Caller, NEW c \in Checkout, NEW op, NEW amount,
           RetrieveForCall(k, c, op, amount),
           CallOK([op |-> op, c |-> c, amount |-> amount], order)
    PROVE  PInv'
<1>1. /\ call' = [call EXCEPT ![k] = [op |-> op, c |-> c, amount |-> amount]]
      /\ UNCHANGED <<order, attempts, events, delivered, payment, preparing, polled,
                     charged, released>>
  BY DEF RetrieveForCall, stripe
<1>2. StripeInv'
  BY <1>1 DEF PInv, StripeInv
<1>3. PluginInv'
  BY <1>1 DEF PInv, PluginInv
<1>4. ReportInv'
  BY <1>1 DEF PInv, ReportInv
<1> QED BY <1>2, <1>3, <1>4 DEF PInv

LEMMA StartChargeStep ==
    ASSUME PInv, NEW k \in Caller, NEW c \in Checkout, StartCharge(k, c)
    PROVE  PInv'
<1>1. PICK asked \in ChargeAmounts :
        /\ asked # None => ~ForbidsFraction(asked, Currency)
        /\ RetrieveForCall(k, c, "charge", asked)
  BY DEF StartCharge
<1>2. c \in DOMAIN order
  BY <1>1, BoundExists DEF RetrieveForCall
<1>3. CallOK([op |-> "charge", c |-> c, amount |-> asked], order)
  BY <1>1, <1>2 DEF CallOK
<1> QED BY <1>1, <1>3, RetrieveStep

LEMMA StartReleaseStep ==
    ASSUME PInv, NEW k \in Caller, NEW c \in Checkout, StartRelease(k, c)
    PROVE  PInv'
<1> DEFINE amount == order[c].amount_capturable
<1>1. RetrieveForCall(k, c, "release", amount)
  BY DEF StartRelease
<1>2. c \in DOMAIN order /\ order[c].status = "requires_capture"
  BY <1>1, BoundExists DEF RetrieveForCall
<1>3. amount = Total
  BY <1>2 DEF PInv, StripeInv, OrdersOK, OrderOK
<1>4. RetrieveForCall(k, c, "release", Total)
  BY <1>1, <1>3
<1>5. CallOK([op |-> "release", c |-> c, amount |-> Total], order)
  BY <1>2 DEF CallOK
<1> QED BY <1>4, <1>5, RetrieveStep

\* A call that ends, whatever it did, leaves the other calls as they were.
LEMMA CallEnds ==
    ASSUME PInv, NEW k \in Caller, EndCall(k)
    PROVE  /\ DOMAIN call' = Caller
           /\ \A j \in Caller : call'[j] = None \/ call'[j] = call[j]
BY DEF EndCall, PInv, PluginInv

LEMMA FinishChargeStep ==
    ASSUME PInv, NEW k \in Caller, FinishCharge(k)
    PROVE  PInv'
<1>1. PICK c : c = call[k].c
  OBVIOUS
<1>2. PICK asked : asked = call[k].amount
  OBVIOUS
<1>3. PICK amount : amount = ToCapture(c, asked)
  OBVIOUS
<1>4. /\ CaptureIntent(c, amount)
      /\ charged' = charged \/ ReportCharge(c, asked, order'[c].amount_received)
      /\ EndCall(k)
      /\ UNCHANGED <<delivered, payment, preparing, polled, released>>
  BY <1>1, <1>2, <1>3 DEF FinishCharge
<1>5. CallOK(call[k], order) /\ call[k] # None /\ call[k].op = "charge"
  BY DEF FinishCharge, PInv, PluginInv
<1>6. /\ c \in DOMAIN order /\ c \in Checkout /\ OrderOK(order[c])
      /\ asked \in ChargeAmounts
      /\ asked # None => ~ForbidsFraction(asked, Currency)
  BY <1>1, <1>2, <1>5 DEF CallOK, PInv, StripeInv, OrdersOK
<1>7. /\ StripeInv' /\ Grows(order, order') /\ c \in DOMAIN order'
      /\ order[c].status = "requires_capture"
      /\ order'[c].status = "succeeded" /\ order'[c].amount_received = amount
  BY <1>4, <1>6, CaptureStep DEF PInv
<1>8. PluginInv'
  <2>1. DOMAIN order' \subseteq Checkout
    BY <1>7 DEF StripeInv, OrdersOK
  <2>2. /\ DOMAIN call' = Caller
        /\ \A j \in Caller : call'[j] = None \/ call'[j] = call[j]
    BY <1>4, CallEnds
  <2> QED BY <1>4, <1>7, <2>1, <2>2, PluginLasts DEF PInv
<1>9. ReportInv'
  <2>1. CASE charged' = charged
    BY <1>4, <1>7, <2>1, ReportInvLasts DEF PInv
  <2>2. CASE ReportCharge(c, asked, order'[c].amount_received)
    <3> DEFINE report == [asked |-> asked, told |-> FromMinor(amount, Currency)]
    \* The order was capturable, so nobody was told of a charge or a release.
    <3>1. charged[c] = <<>> /\ released[c] = 0
      BY <1>6, <1>7 DEF PInv, ReportInv, ReportsOK
    <3>2. charged' = [charged EXCEPT ![c] = Append(charged[c], report)]
      BY <1>7, <2>2 DEF ReportCharge
    <3>3. charged'[c] = <<report>>
      BY <1>6, <3>1, <3>2 DEF PInv, ReportInv
    <3>4. /\ amount \in Nat /\ IsChargeable(amount, Currency)
          /\ asked = None => amount = Total
          /\ asked # None => IsNearest(FromMinor(amount, Currency), asked, Currency)
      <4>1. CASE asked = None
        <5>1. amount = Total
          BY <1>3, <1>6, <1>7, <4>1 DEF ToCapture, OrderOK
        <5> QED BY <1>6, <4>1, <5>1, TotalFacts DEF OrderOK
      <4>2. CASE asked # None
        <5>1. asked \in Nat /\ amount = ToMinor(asked, Currency)
          BY <1>3, <1>6, <4>2, ChargeAmountsAssumption DEF ToCapture
        <5> QED BY <1>6, <4>2, <5>1, NearestChargeable, CurrencyAssumption
                DEF IsChargeable
      <4> QED BY <4>1, <4>2
    <3>5. report \in Report
      BY <1>6, <3>4, FromMinorIsNat DEF Report
    <3>6. charged' \in [Checkout -> Seq(Report)]
      BY <1>6, <3>2, <3>5 DEF PInv, ReportInv
    <3>7. ReportsOK(c, order', <<report>>, 0)
      BY <1>7, <3>4 DEF ReportsOK
    <3>8. ASSUME NEW d \in Checkout PROVE ReportsOK(d, order', charged'[d], released[d])
      <4>1. CASE d = c
        BY <3>1, <3>3, <3>7, <4>1
      <4>2. CASE d # c
        <5>1. charged'[d] = charged[d]
          BY <3>2, <4>2 DEF PInv, ReportInv
        <5> QED BY <1>7, <5>1, ReportsLast DEF PInv, ReportInv
      <4> QED BY <4>1, <4>2
    <3> QED BY <1>4, <3>6, <3>8 DEF PInv, ReportInv
  <2> QED BY <1>4, <2>1, <2>2
<1> QED BY <1>7, <1>8, <1>9 DEF PInv

LEMMA FinishReleaseStep ==
    ASSUME PInv, NEW k \in Caller, FinishRelease(k)
    PROVE  PInv'
<1> DEFINE freed == FromMinor(Total, Currency)
<1>1. PICK c : c = call[k].c
  OBVIOUS
<1>2. CallOK(call[k], order) /\ call[k] # None /\ call[k].op = "release"
  BY DEF FinishRelease, PInv, PluginInv
<1>3. c \in DOMAIN order /\ c \in Checkout /\ call[k].amount = Total
  BY <1>1, <1>2 DEF CallOK, PInv, StripeInv, OrdersOK
<1>4. /\ CancelIntent(c)
      /\ released' = released \/ released' = [released EXCEPT ![c] = @ + freed]
      /\ EndCall(k)
      /\ UNCHANGED <<delivered, payment, preparing, polled, charged>>
  BY <1>1, <1>3 DEF FinishRelease
<1>5. /\ StripeInv' /\ Grows(order, order') /\ c \in DOMAIN order'
      /\ order[c].status \notin {"succeeded", "canceled"}
      /\ order'[c].status = "canceled"
  BY <1>3, <1>4, CancelStep DEF PInv
<1>6. PluginInv'
  <2>1. DOMAIN order' \subseteq Checkout
    BY <1>5 DEF StripeInv, OrdersOK
  <2>2. /\ DOMAIN call' = Caller
        /\ \A j \in Caller : call'[j] = None \/ call'[j] = call[j]
    BY <1>4, CallEnds
  <2> QED BY <1>4, <1>5, <2>1, <2>2, PluginLasts DEF PInv
<1>7. ReportInv'
  <2>1. CASE released' = released
    BY <1>4, <1>5, <2>1, ReportInvLasts DEF PInv
  <2>2. CASE released' = [released EXCEPT ![c] = @ + freed]
    <3>1. charged[c] = <<>> /\ released[c] = 0
      BY <1>3, <1>5 DEF PInv, ReportInv, ReportsOK
    <3>2. freed \in Nat
      BY <1>3, TotalIsNat, FromMinorIsNat DEF PInv, StripeInv
    <3>3. released' \in [Checkout -> Nat] /\ released'[c] = freed
      BY <1>3, <2>2, <3>1, <3>2 DEF PInv, ReportInv
    <3>4. ReportsOK(c, order', <<>>, freed)
      BY <1>5 DEF ReportsOK
    <3>5. ASSUME NEW d \in Checkout PROVE ReportsOK(d, order', charged[d], released'[d])
      <4>1. CASE d = c
        BY <3>1, <3>3, <3>4, <4>1
      <4>2. CASE d # c
        <5>1. released'[d] = released[d]
          BY <2>2, <4>2 DEF PInv, ReportInv
        <5> QED BY <1>5, <5>1, ReportsLast DEF PInv, ReportInv
      <4> QED BY <4>1, <4>2
    <3> QED BY <1>4, <3>3, <3>5 DEF PInv, ReportInv
  <2> QED BY <1>4, <2>1, <2>2
<1> QED BY <1>5, <1>6, <1>7 DEF PInv

LEMMA FailCallStep ==
    ASSUME PInv, NEW k \in Caller, FailCall(k)
    PROVE  PInv'
<1>1. UNCHANGED <<order, attempts, events, delivered, payment, preparing, polled,
                  charged, released>>
  BY DEF FailCall, stripe
<1>2. /\ DOMAIN call' = Caller
      /\ \A j \in Caller : call'[j] = None \/ call'[j] = call[j]
  BY CallEnds DEF FailCall
<1>3. StripeInv'
  BY <1>1 DEF PInv, StripeInv
<1>4. PluginInv'
  BY <1>1, <1>2 DEF PInv, PluginInv, CallOK
<1>5. ReportInv'
  BY <1>1 DEF PInv, ReportInv
<1> QED BY <1>3, <1>4, <1>5 DEF PInv

LEMMA PInvInit ==
    ASSUME Init
    PROVE  PInv
<1>1. StripeInv
  BY MaxAttemptsAssumption DEF Init, StripeInv, OrdersOK
<1>2. PluginInv
  BY DEF Init, PluginInv, PaymentOK, PollOK, CallOK, NewPayment, AppliedEventIds
<1>3. \A c \in Checkout : ReportsOK(c, order, <<>>, 0)
  BY DEF ReportsOK
<1>4. ReportInv
  BY <1>3 DEF Init, ReportInv
<1> QED BY <1>1, <1>2, <1>4 DEF PInv

LEMMA PInvNext ==
    ASSUME PInv, [Next]_vars
    PROVE  PInv'
<1>1. ASSUME NEW c \in Checkout, StripeActs(c) PROVE PInv'
  BY <1>1, StripeActsStep
<1>2. ASSUME NEW c \in Checkout, NEW capture_method \in {"automatic", "manual"},
             Prepare(c, capture_method)
      PROVE  PInv'
  BY <1>2, PrepareStep
<1>3. ASSUME NEW c \in Checkout, SavePrepared(c) PROVE PInv'
  BY <1>3, SavePreparedStep
<1>4. ASSUME NEW c \in Checkout, PollSession(c) PROVE PInv'
  BY <1>4, PollSessionStep
<1>5. ASSUME NEW c \in Checkout, PollIntent(c) PROVE PInv'
  BY <1>5, PollIntentStep
<1>6. ASSUME NEW c \in Checkout, NEW k \in Caller, StartCharge(k, c) PROVE PInv'
  BY <1>6, StartChargeStep
<1>7. ASSUME NEW c \in Checkout, NEW k \in Caller, StartRelease(k, c) PROVE PInv'
  BY <1>7, StartReleaseStep
<1>8. ASSUME NEW k \in Caller, FinishCharge(k) PROVE PInv'
  BY <1>8, FinishChargeStep
<1>9. ASSUME NEW k \in Caller, FinishRelease(k) PROVE PInv'
  BY <1>9, FinishReleaseStep
<1>10. ASSUME NEW k \in Caller, FailCall(k) PROVE PInv'
  BY <1>10, FailCallStep
<1>11. CASE ApplyPolled
  BY <1>11, ApplyPolledStep
<1>12. ASSUME NEW e \in events, Callback(e) PROVE PInv'
  BY <1>12, CallbackStep
<1>13. CASE UNCHANGED vars
  <2>1. UNCHANGED <<order, attempts, events, delivered, payment, preparing, call,
                    polled, charged, released>>
    BY <1>13 DEF vars, stripe, plugin
  <2> QED BY <2>1 DEF PInv, StripeInv, PluginInv, ReportInv
<1>14. CASE Next
  BY <1>1, <1>2, <1>3, <1>4, <1>5, <1>6, <1>7, <1>8, <1>9, <1>10, <1>11, <1>12, <1>14
  DEF Next
<1> QED BY <1>13, <1>14

LEMMA PInvAlways == Spec => []PInv
<1>1. Init => PInv
  BY PInvInit
<1>2. PInv /\ [Next]_vars => PInv'
  BY PInvNext
<1> QED BY <1>1, <1>2, PTL DEF Spec

-----------------------------------------------------------------------------
(* No outcome is lost: the inductive invariant beside PInv. *)

\* What handle_callback() makes of an event about a session or an intent.
MapOf(e) ==
    IF e.type \in SessionEvents THEN MapSessionEvent(e) ELSE MapPaymentIntentEvent(e)

\* An event has the shape of one, and a session's and an intent's name the
\* payment, however it is bound.  A session's id is no intent's.
Carries(e) ==
    /\ e \in WebhookEvent({PaymentId})
    /\ e.type \in SessionEvents \cup IntentEvents => PaymentId \in Evidence(e.obj)
    /\ e.type \in SessionEvents => IsSessionId(e.obj.id)
    /\ e.type \in IntentEvents => e.obj.payment_intent = None

\* An order is in a state that matters only with the event that says so; the
\* n-th attempt failed only with the event about that attempt.
Said(evs, type, id) == \E e \in evs : e.type = type /\ e.obj.id = id
Announced(c, status, n, evs) ==
    /\ status = "succeeded" => Said(evs, "payment_intent.succeeded", IntentId(c))
    /\ status = "canceled" => Said(evs, "payment_intent.canceled", IntentId(c))
    /\ status = "expired" => Said(evs, "checkout.session.expired", SessionId(c))
    /\ status = "requires_capture" =>
         Said(evs, "payment_intent.amount_capturable_updated", IntentId(c))
    /\ status = "declined" =>
         Said({e \in evs : e.n = n}, "payment_intent.payment_failed", IntentId(c))

EventsOK(orders, tries, evs) ==
    /\ \A e \in evs : Carries(e)
    /\ \A c \in DOMAIN orders : Announced(c, orders[c].status, tries[c], evs)

\* What was delivered was applied.
Heeds(p, seen) ==
    \A e \in seen : e.type \in SessionEvents \cup IntentEvents => MapOf(e) \in p.applied

OutcomeInv ==
    /\ EventsOK(order, attempts, events)
    /\ Heeds(payment, delivered)

\* The payloads of an order that is well formed.
LEMMA PayloadsTyped ==
    ASSUME NEW c \in Checkout, NEW o, OrderOK(o)
    PROVE  /\ SessionObject(c, o) \in PayloadObject({PaymentId})
           /\ PaymentIntentObject(c, o) \in PayloadObject({PaymentId})
<1>1. SessionId(c) \in ObjectId /\ IntentId(c) \in ObjectId
  BY CheckoutAssumption DEF SessionId, IntentId, ObjectId
<1>2. Total \in Nat
  BY TotalFacts DEF OrderOK
<1>3. o.amount_capturable \in Nat /\ o.amount_received \in Nat
  BY <1>2 DEF OrderOK
<1>4. o.owner = PaymentId /\ o.capture_method \in {"automatic", "manual"}
      /\ o.status \in CheckoutStatus
  BY DEF OrderOK
<1>5. SessionStatus(o) \in {"open", "expired", "complete"}
  BY DEF SessionStatus
<1>6. PaymentIntentStatus(o) \in CheckoutStatus \cup {"requires_payment_method"}
  BY <1>4 DEF PaymentIntentStatus
<1>7. SessionObject(c, o) \in PayloadObject({PaymentId})
  BY <1>1, <1>4, <1>5 DEF SessionObject, PayloadObject, CheckoutStatus
<1>8. PaymentIntentObject(c, o) \in PayloadObject({PaymentId})
  BY <1>1, <1>3, <1>4, <1>6 DEF PaymentIntentObject, PayloadObject
<1> QED BY <1>7, <1>8

LEMMA NewEventCarries ==
    ASSUME StripeInv', NEW c \in DOMAIN order'
    PROVE  /\ \A type \in SessionEvents : Carries(SessionEvent(c, type))
           /\ \A type \in IntentEvents : Carries(IntentEvent(c, type))
<1>1. /\ c \in Checkout /\ OrderOK(order'[c]) /\ order'[c].owner = PaymentId
      /\ attempts'[c] \in Nat
  BY MaxAttemptsAssumption DEF StripeInv, OrdersOK, OrderOK
<1>2. /\ SessionObject(c, order'[c]) \in PayloadObject({PaymentId})
      /\ PaymentIntentObject(c, order'[c]) \in PayloadObject({PaymentId})
  BY <1>1, PayloadsTyped
<1>3. ASSUME NEW type \in SessionEvents PROVE Carries(SessionEvent(c, type))
  <2>1. SessionEvent(c, type) \in WebhookEvent({PaymentId})
    BY <1>1, <1>2 DEF SessionEvent, WebhookEvent
  <2>2. PaymentId \in Evidence(SessionEvent(c, type).obj)
    BY <1>1, PaymentIdAssumption DEF Evidence, SessionEvent, SessionObject
  <2>3. IsSessionId(SessionEvent(c, type).obj.id) /\ type \notin IntentEvents
    BY <1>1, IdsDistinct
    DEF IsSessionId, SessionId, SessionEvent, SessionObject, SessionEvents, IntentEvents
  <2> QED BY <2>1, <2>2, <2>3 DEF Carries, SessionEvent
<1>4. ASSUME NEW type \in IntentEvents PROVE Carries(IntentEvent(c, type))
  <2>1. IntentEvent(c, type) \in WebhookEvent({PaymentId})
    BY <1>1, <1>2 DEF IntentEvent, WebhookEvent
  <2>2. PaymentId \in Evidence(IntentEvent(c, type).obj)
    BY <1>1, PaymentIdAssumption DEF Evidence, IntentEvent, PaymentIntentObject
  <2>3. IntentEvent(c, type).obj.payment_intent = None /\ type \notin SessionEvents
    BY DEF IntentEvent, PaymentIntentObject, SessionEvents, IntentEvents
  <2> QED BY <2>1, <2>2, <2>3 DEF Carries, IntentEvent
<1> QED BY <1>3, <1>4

LEMMA NewEventSays ==
    ASSUME NEW c, NEW type
    PROVE  /\ SessionEvent(c, type).type = type
           /\ SessionEvent(c, type).obj.id = SessionId(c)
           /\ IntentEvent(c, type).type = type
           /\ IntentEvent(c, type).obj.id = IntentId(c)
           /\ IntentEvent(c, type).n = attempts'[c]
BY DEF SessionEvent, IntentEvent, SessionObject, PaymentIntentObject

\* Every move of Stripe's on an order, those of its API included, is a transition
\* that emits events about the order, and what its status asks for.
LEMMA MoveIs ==
    ASSUME StripeInv, NEW c \in Checkout, NEW amount,
           \/ Buyer(c) \/ ExpireSession(c) \/ SettleDelayed(c) \/ FailDelayed(c)
           \/ CancelIntent(c) \/ CaptureIntent(c, amount)
    PROVE  /\ \A d \in Checkout : d # c => attempts'[d] = attempts[d]
           /\ \E status, fields, new :
                /\ Transition(c, status, fields) /\ Emit(new)
                /\ Announced(c, status, attempts'[c], new)
                /\ \A e \in new :
                     \/ \E type \in SessionEvents : e = SessionEvent(c, type)
                     \/ \E type \in IntentEvents : e = IntentEvent(c, type)
<1>1. \A d \in Checkout : d # c => attempts'[d] = attempts[d]
  BY DEF StripeInv, Buyer, Decline, PayDelayed, PayManual, PayAutomatic, Attempt,
         ExpireSession, SettleDelayed, FailDelayed, CancelIntent, CaptureIntent
<1> SUFFICES \E status, fields, new :
                /\ Transition(c, status, fields) /\ Emit(new)
                /\ Announced(c, status, attempts'[c], new)
                /\ \A e \in new :
                     \/ \E type \in SessionEvents : e = SessionEvent(c, type)
                     \/ \E type \in IntentEvents : e = IntentEvent(c, type)
  BY <1>1
<1>2. CASE Decline(c) \/ FailDelayed(c)
  <2>1. PICK fields : Transition(c, "declined", fields)
    BY <1>2 DEF Decline, FailDelayed, Attempt
  <2>2. PICK new : new = {IntentEvent(c, "payment_intent.payment_failed")} /\ Emit(new)
    BY <1>2 DEF Decline, FailDelayed
  <2>3. Announced(c, "declined", attempts'[c], new)
    BY <2>2, NewEventSays DEF Announced, Said
  <2> QED BY <2>1, <2>2, <2>3 DEF IntentEvents
<1>3. CASE PayDelayed(c)
  <2>1. PICK fields : Transition(c, "processing", fields)
    BY <1>3 DEF PayDelayed, Attempt
  <2>2. PICK new : new = {SessionEvent(c, "checkout.session.completed")} /\ Emit(new)
    BY <1>3 DEF PayDelayed
  <2>3. Announced(c, "processing", attempts'[c], new)
    BY DEF Announced
  <2> QED BY <2>1, <2>2, <2>3 DEF SessionEvents
<1>4. CASE PayManual(c)
  <2>1. PICK fields : Transition(c, "requires_capture", fields)
    BY <1>4 DEF PayManual, Attempt
  <2>2. PICK new : /\ new = {SessionEvent(c, "checkout.session.completed"),
                        IntentEvent(c, "payment_intent.amount_capturable_updated")}
                   /\ Emit(new)
    BY <1>4 DEF PayManual
  <2>3. Announced(c, "requires_capture", attempts'[c], new)
    BY <2>2, NewEventSays DEF Announced, Said
  <2> QED BY <2>1, <2>2, <2>3 DEF SessionEvents, IntentEvents
<1>5. CASE PayAutomatic(c)
  <2>1. PICK fields : Transition(c, "succeeded", fields)
    BY <1>5 DEF PayAutomatic, Attempt
  <2>2. PICK new : /\ new = {SessionEvent(c, "checkout.session.completed"),
                             IntentEvent(c, "payment_intent.succeeded")}
                   /\ Emit(new)
    BY <1>5 DEF PayAutomatic
  <2>3. Announced(c, "succeeded", attempts'[c], new)
    BY <2>2, NewEventSays DEF Announced, Said
  <2> QED BY <2>1, <2>2, <2>3 DEF SessionEvents, IntentEvents
<1>6. CASE ExpireSession(c)
  <2>1. PICK new : /\ new = {SessionEvent(c, "checkout.session.expired")}
                   /\ Emit(new) /\ Transition(c, "expired", <<>>)
    BY <1>6 DEF ExpireSession
  <2>2. Announced(c, "expired", attempts'[c], new)
    BY <2>1, NewEventSays DEF Announced, Said
  <2> QED BY <2>1, <2>2 DEF SessionEvents
<1>7. CASE SettleDelayed(c) \/ CaptureIntent(c, amount)
  <2>1. PICK fields : Transition(c, "succeeded", fields)
    BY <1>7 DEF SettleDelayed, CaptureIntent
  <2>2. PICK new : new = {IntentEvent(c, "payment_intent.succeeded")} /\ Emit(new)
    BY <1>7 DEF SettleDelayed, CaptureIntent
  <2>3. Announced(c, "succeeded", attempts'[c], new)
    BY <2>2, NewEventSays DEF Announced, Said
  <2> QED BY <2>1, <2>2, <2>3 DEF IntentEvents
<1>8. CASE CancelIntent(c)
  <2>1. PICK fields : Transition(c, "canceled", fields)
    BY <1>8 DEF CancelIntent
  <2>2. PICK new : new = {IntentEvent(c, "payment_intent.canceled")} /\ Emit(new)
    BY <1>8 DEF CancelIntent
  <2>3. Announced(c, "canceled", attempts'[c], new)
    BY <2>2, NewEventSays DEF Announced, Said
  <2> QED BY <2>1, <2>2, <2>3 DEF IntentEvents
<1> QED BY <1>2, <1>3, <1>4, <1>5, <1>6, <1>7, <1>8 DEF Buyer

LEMMA MoveAnnounces ==
    ASSUME StripeInv, StripeInv', EventsOK(order, attempts, events),
           NEW c \in Checkout, NEW amount,
           \/ Buyer(c) \/ ExpireSession(c) \/ SettleDelayed(c) \/ FailDelayed(c)
           \/ CancelIntent(c) \/ CaptureIntent(c, amount)
    PROVE  EventsOK(order', attempts', events')
<1>1. \A d \in Checkout : d # c => attempts'[d] = attempts[d]
  BY MoveIs
<1>2. PICK status, fields, new :
         /\ Transition(c, status, fields) /\ Emit(new)
         /\ Announced(c, status, attempts'[c], new)
         /\ \A e \in new :
              \/ \E type \in SessionEvents : e = SessionEvent(c, type)
              \/ \E type \in IntentEvents : e = IntentEvent(c, type)
  BY MoveIs
<1>3. /\ c \in DOMAIN order /\ DOMAIN order' = DOMAIN order
      /\ OrderOK(order[c])
      /\ order'[c] = [f \in DOMAIN order[c] |->
                          IF f = "status" THEN status
                          ELSE IF f \in DOMAIN fields THEN fields[f]
                          ELSE order[c][f]]
      /\ \A d \in DOMAIN order : d # c => order'[d] = order[d]
  BY <1>2, TransitionEffect DEF StripeInv
<1>4. order'[c].status = status
  BY <1>3, OrderFields
<1>5. \A e \in new : Carries(e)
  BY <1>2, <1>3, NewEventCarries
<1>6. ASSUME NEW d \in DOMAIN order'
      PROVE  Announced(d, order'[d].status, attempts'[d], events')
  <2>1. CASE d = c
    BY <1>2, <1>4, <2>1 DEF Announced, Said, Emit
  <2>2. CASE d # c
    <3>1. /\ order'[d] = order[d] /\ attempts'[d] = attempts[d]
          /\ Announced(d, order[d].status, attempts[d], events)
      BY <1>1, <1>3, <2>2 DEF EventsOK, StripeInv, OrdersOK
    <3> QED BY <1>2, <3>1 DEF Announced, Said, Emit
  <2> QED BY <2>1, <2>2
<1> QED BY <1>2, <1>5, <1>6 DEF EventsOK, Emit

LEMMA ReviewCarries ==
    ASSUME EventsOK(order, attempts, events), NEW c \in Checkout,
           NEW type \in ReviewEvents, NEW reason \in {"approved", "refunded", None},
           Emit({ReviewEvent(c, type, reason)}), UNCHANGED <<order, attempts>>
    PROVE  EventsOK(order', attempts', events')
<1>1. Carries(ReviewEvent(c, type, reason))
  <2>1. ReviewId(c) \in ObjectId /\ IntentId(c) \in ObjectId
    BY CheckoutAssumption DEF ReviewId, IntentId, ObjectId
  <2>2. ReviewObject(c, reason) \in PayloadObject({PaymentId})
    BY <2>1 DEF ReviewObject, PayloadObject
  <2>3. ReviewEvent(c, type, reason) \in WebhookEvent({PaymentId})
    BY <2>2 DEF ReviewEvent, WebhookEvent
  <2> QED BY <2>3
          DEF Carries, ReviewEvent, ReviewEvents, SessionEvents, IntentEvents
<1> QED BY <1>1 DEF EventsOK, Announced, Said, Emit

\* What was applied stays applied.
LEMMA ApplyKeeps ==
    ASSUME NEW p, "applied" \in DOMAIN p, NEW update
    PROVE  p.applied \subseteq ApplyPaymentUpdate(p, update).applied
BY DEF ApplyPaymentUpdate

\* A session's or an intent's event, delivered for the first time, is applied.
LEMMA CallbackMaps ==
    ASSUME PInv, OutcomeInv, NEW e \in events,
           e.type \in SessionEvents \cup IntentEvents
    PROVE  HandleCallback(payment, e) = MapOf(e) /\ MapOf(e).provider_event_id = e
<1>1. IsCorrelated(payment, e.obj)
  BY DEF OutcomeInv, EventsOK, Carries, IsCorrelated, PInv, PluginInv, PaymentOK
<1>2. HandleCallback(payment, e) = MapOf(e)
  <2>1. CASE e.type \in SessionEvents
    BY <1>1, <2>1 DEF HandleCallback, MapOf, SessionEvents, IntentEvents, ReviewEvents
  <2>2. CASE e.type \in IntentEvents
    BY <1>1, <2>2 DEF HandleCallback, MapOf, SessionEvents, IntentEvents, ReviewEvents
  <2> QED BY <2>1, <2>2
<1>3. OrdersOK(order) /\ EventTells(e, order)
  BY DEF PInv, StripeInv
<1>4. CASE e.type \in SessionEvents
  BY <1>2, <1>3, <1>4, SessionUpdateTells DEF MapOf
<1>5. CASE e.type \in IntentEvents
  <2>1. e.type \notin SessionEvents
    BY <1>5 DEF SessionEvents, IntentEvents
  <2> QED BY <1>2, <1>3, <1>5, <2>1, IntentUpdateTells DEF MapOf
<1> QED BY <1>2, <1>4, <1>5

\* An update is something; only an ignored event maps to None.
LEMMA MapsToSomething ==
    ASSUME NEW e \in WebhookEvent({PaymentId}), e.type \in SessionEvents \cup IntentEvents
    PROVE  MapOf(e) # None
<1>1. /\ e.obj.id \in ObjectId /\ e.obj.payment_intent \in ObjectId \cup {None}
      /\ e.obj.amount_capturable \in Nat /\ e.obj.amount_received \in Nat
  BY DEF WebhookEvent, PayloadObject
<1>2. /\ FromMinor(e.obj.amount_capturable, Currency) \in Nat
      /\ FromMinor(e.obj.amount_received, Currency) \in Nat
  BY <1>1, FromMinorIsNat
<1>3. ASSUME NEW said \in PaymentEvent \cup {None}, NEW amount \in Nat,
             NEW id \in ObjectId \cup {None}
      PROVE  PaymentUpdate(said, amount, id, e) # None
  <2>1. PaymentUpdate(said, amount, id, e) \in MappedUpdate({PaymentId})
    BY DEF PaymentUpdate, MappedUpdate
  <2> QED BY <2>1, IgnoredAssumption
<1>4. CASE e.type \in SessionEvents
  <2>1. \E said \in PaymentEvent \cup {None} :
          MapOf(e) = PaymentUpdate(said, 0, e.obj.payment_intent, e)
    BY <1>4 DEF MapOf, MapSessionEvent, FailedUpdate, SessionEvents, PaymentEvent
  <2> QED BY <1>1, <1>3, <2>1
<1>5. CASE e.type \in IntentEvents
  <2>1. MapOf(e) = MapPaymentIntentEvent(e)
    BY <1>5 DEF MapOf, SessionEvents, IntentEvents
  <2>2. CASE e.type = "payment_intent.amount_capturable_updated"
    <3>1. MapOf(e) = PaymentUpdate("LOCKED", FromMinor(e.obj.amount_capturable, Currency),
                                   e.obj.id, e)
      BY <2>1, <2>2 DEF MapPaymentIntentEvent, LockedUpdate
    <3> QED BY <1>1, <1>2, <1>3, <3>1 DEF PaymentEvent
  <2>3. CASE e.type = "payment_intent.succeeded"
    <3>1. MapOf(e) = PaymentUpdate("PAYMENT_CAPTURED",
                                   FromMinor(e.obj.amount_received, Currency),
                                   e.obj.id, e)
      BY <2>1, <2>3 DEF MapPaymentIntentEvent, CapturedUpdate
    <3> QED BY <1>1, <1>2, <1>3, <3>1 DEF PaymentEvent
  <2>4. CASE e.type \in {"payment_intent.payment_failed", "payment_intent.canceled"}
    <3>1. \E said \in PaymentEvent : MapOf(e) = PaymentUpdate(said, 0, e.obj.id, e)
      BY <2>1, <2>4 DEF MapPaymentIntentEvent, CanceledUpdate, FailedUpdate, PaymentEvent
    <3> QED BY <1>1, <1>3, <3>1
  <2> QED BY <1>5, <2>2, <2>3, <2>4 DEF IntentEvents
<1> QED BY <1>4, <1>5

LEMMA CallbackKeepsOutcomes ==
    ASSUME PInv, OutcomeInv, NEW e \in events, Callback(e)
    PROVE  OutcomeInv'
<1>1. PICK update : update = HandleCallback(payment, e)
  OBVIOUS
<1>2. /\ delivered' = delivered \cup {e}
      /\ payment' = ApplyPaymentUpdate(payment, update)
      /\ UNCHANGED <<order, attempts, events>>
  BY <1>1 DEF Callback, Apply, stripe
<1>3. PaymentOK(payment, order, delivered) /\ "applied" \in DOMAIN payment
  BY DEF PInv, PluginInv, PaymentOK, NewPayment
<1>4. payment.applied \subseteq payment'.applied
  BY <1>2, <1>3, ApplyKeeps
<1>5. ASSUME e.type \in SessionEvents \cup IntentEvents
      PROVE  MapOf(e) \in payment'.applied
  <2>1. CASE e \in delivered
    BY <1>4, <1>5, <2>1 DEF OutcomeInv, Heeds
  <2>2. CASE e \notin delivered
    <3>1. update = MapOf(e) /\ update.provider_event_id = e
      BY <1>1, <1>5, CallbackMaps
    <3>2. e \notin AppliedEventIds(payment)
      BY <1>3, <2>2 DEF PaymentOK
    <3>3. update # None
      BY <1>5, <3>1, MapsToSomething DEF OutcomeInv, EventsOK, Carries
    <3> QED BY <1>2, <1>3, <3>1, <3>2, <3>3 DEF ApplyPaymentUpdate
  <2> QED BY <2>1, <2>2
<1>6. Heeds(payment', delivered')
  BY <1>2, <1>4, <1>5 DEF OutcomeInv, Heeds
<1> QED BY <1>2, <1>6 DEF OutcomeInv

\* Steps that deliver nothing forget nothing.
LEMMA OutcomesLast ==
    ASSUME OutcomeInv, EventsOK(order', attempts', events'), UNCHANGED delivered,
           payment.applied \subseteq payment'.applied
    PROVE  OutcomeInv'
BY DEF OutcomeInv, Heeds

LEMMA OutcomeInvInit ==
    ASSUME Init
    PROVE  OutcomeInv
BY DEF Init, OutcomeInv, EventsOK, Heeds

LEMMA OutcomeInvNext ==
    ASSUME PInv, OutcomeInv, [Next]_vars
    PROVE  OutcomeInv'
<1> USE OutcomesLast
<1>1. StripeInv /\ StripeInv' /\ EventsOK(order, attempts, events)
  BY PInvNext DEF PInv, OutcomeInv
<1>2. ASSUME UNCHANGED <<order, attempts, events, delivered>>,
             payment.applied \subseteq payment'.applied
      PROVE  OutcomeInv'
  BY <1>1, <1>2
<1>3. ASSUME NEW c \in Checkout, StripeActs(c) PROVE OutcomeInv'
  <2>1. UNCHANGED <<delivered, payment>>
    BY <1>3 DEF StripeActs, plugin
  <2>2. CASE \/ Buyer(c) \/ ExpireSession(c) \/ SettleDelayed(c) \/ FailDelayed(c)
             \/ CancelIntent(c)
    BY <1>1, <2>1, <2>2, MoveAnnounces
  <2>3. CASE OpenReview(c) \/ CloseReview(c)
    <3>1. PICK type \in ReviewEvents, reason \in {"approved", "refunded", None} :
             Emit({ReviewEvent(c, type, reason)}) /\ UNCHANGED <<order, attempts>>
      BY <2>3 DEF OpenReview, CloseReview, ReviewEvents
    <3> QED BY <1>1, <2>1, <3>1, ReviewCarries
  <2> QED BY <1>3, <2>2, <2>3 DEF StripeActs
<1>4. ASSUME NEW c \in Checkout, NEW capture_method \in {"automatic", "manual"},
             Prepare(c, capture_method)
      PROVE  OutcomeInv'
  <2>1. /\ order' = [b \in DOMAIN order \cup {c} |->
                        IF b = c THEN NewOrder(PaymentId, capture_method) ELSE order[b]]
        /\ UNCHANGED <<attempts, events, delivered, payment>>
    BY <1>4 DEF Prepare
  <2>2. \A b \in DOMAIN order' : Announced(b, order'[b].status, attempts'[b], events')
    BY <1>1, <2>1 DEF EventsOK, Announced, NewOrder
  <2> QED BY <1>1, <2>1, <2>2 DEF EventsOK
<1>5. ASSUME NEW c \in Checkout, SavePrepared(c) PROVE OutcomeInv'
  <2>1. payment'.applied = payment.applied
    BY <1>5 DEF SavePrepared, PInv, PluginInv, PaymentOK, NewPayment
  <2> QED BY <1>2, <1>5, <2>1 DEF SavePrepared, stripe
<1>6. ASSUME NEW c \in Checkout, PollSession(c) \/ PollIntent(c) PROVE OutcomeInv'
  BY <1>2, <1>6 DEF PollSession, PollIntent, stripe
<1>7. ASSUME NEW c \in Checkout, NEW k \in Caller, StartCharge(k, c) \/ StartRelease(k, c)
      PROVE  OutcomeInv'
  BY <1>2, <1>7 DEF StartCharge, StartRelease, RetrieveForCall, stripe
<1>8. ASSUME NEW k \in Caller, FinishCharge(k) \/ FinishRelease(k) PROVE OutcomeInv'
  <2>1. PICK c : c = call[k].c
    OBVIOUS
  <2>2. /\ UNCHANGED <<delivered, payment>>
        /\ CancelIntent(c) \/ \E amount : CaptureIntent(c, amount)
    BY <1>8, <2>1 DEF FinishCharge, FinishRelease
  <2>3. c \in Checkout
    BY <1>8, <2>1
    DEF FinishCharge, FinishRelease, PInv, StripeInv, OrdersOK, PluginInv, CallOK
  <2> QED BY <1>1, <2>2, <2>3, MoveAnnounces
<1>9. ASSUME NEW k \in Caller, FailCall(k) PROVE OutcomeInv'
  BY <1>2, <1>9 DEF FailCall, stripe
<1>10. CASE ApplyPolled
  <2>1. "applied" \in DOMAIN payment
    BY DEF PInv, PluginInv, PaymentOK, NewPayment
  <2>2. payment.applied \subseteq payment'.applied
    BY <1>10, <2>1, ApplyKeeps DEF ApplyPolled, Apply
  <2> QED BY <1>2, <1>10, <2>2 DEF ApplyPolled, stripe
<1>11. ASSUME NEW e \in events, Callback(e) PROVE OutcomeInv'
  BY <1>11, CallbackKeepsOutcomes
<1>12. CASE UNCHANGED vars
  BY <1>2, <1>12 DEF vars, stripe, plugin
<1>13. CASE Next
  BY <1>3, <1>4, <1>5, <1>6, <1>7, <1>8, <1>9, <1>10, <1>11, <1>13 DEF Next
<1> QED BY <1>12, <1>13

LEMMA OutcomeInvAlways == Spec => []OutcomeInv
<1>1. Init => OutcomeInv
  BY OutcomeInvInit
<1>2. PInv /\ OutcomeInv /\ [Next]_vars => OutcomeInv'
  BY OutcomeInvNext
<1> QED BY <1>1, <1>2, PInvAlways, PTL DEF Spec

\* What the invariant says of one delivered event.
LEMMA DeliveredIsKnown ==
    ASSUME PInv, OutcomeInv, NEW c \in DOMAIN order, NEW type, NEW id,
           Said(events, type, id), ~ToCome(type, id),
           type \in SessionEvents \cup IntentEvents
    PROVE  \E e \in delivered :
              e.type = type /\ e.obj.id = id /\ MapOf(e) \in payment.applied
BY DEF Said, ToCome, OutcomeInv, Heeds

LEMMA OutcomesKept ==
    ASSUME PInv, OutcomeInv
    PROVE  NoOutcomeLost
<1> SUFFICES ASSUME NEW c \in Checkout, c \in DOMAIN order
             PROVE
        /\ order[c].status = "succeeded" =>
             \/ Applied("PAYMENT_CAPTURED", c)
             \/ ToCome("payment_intent.succeeded", IntentId(c))
        /\ order[c].status = "canceled" =>
             \/ Applied("LOCK_RELEASED", c) \/ Applied("FAILED", c)
             \/ ToCome("payment_intent.canceled", IntentId(c))
        /\ order[c].status = "expired" =>
             SessionFailed(c) \/ ToCome("checkout.session.expired", SessionId(c))
        /\ order[c].status = "requires_capture" =>
             \/ Applied("LOCKED", c)
             \/ ToCome("payment_intent.amount_capturable_updated", IntentId(c))
        /\ order[c].status = "declined" =>
             \/ AttemptFailed(c, attempts[c])
             \/ \E e \in events \ delivered :
                  /\ e.type = "payment_intent.payment_failed"
                  /\ e.obj.id = IntentId(c) /\ e.n = attempts[c]
  BY DEF NoOutcomeLost, StatusIs, Exists
<1>1. Announced(c, order[c].status, attempts[c], events)
  BY DEF OutcomeInv, EventsOK
<1>2. ASSUME order[c].status = "succeeded",
             ~ToCome("payment_intent.succeeded", IntentId(c))
      PROVE  Applied("PAYMENT_CAPTURED", c)
  <2>1. PICK e \in delivered : /\ e.type = "payment_intent.succeeded"
                               /\ e.obj.id = IntentId(c)
                               /\ MapOf(e) \in payment.applied
    BY <1>1, <1>2, DeliveredIsKnown DEF Announced, IntentEvents
  <2>2. MapOf(e).payment_event = "PAYMENT_CAPTURED" /\ MapOf(e).external_id = IntentId(c)
    BY <2>1 DEF MapOf, MapPaymentIntentEvent, CapturedUpdate, PaymentUpdate, SessionEvents
  <2> QED BY <2>1, <2>2 DEF Applied
<1>3. ASSUME order[c].status = "canceled",
             ~ToCome("payment_intent.canceled", IntentId(c))
      PROVE  Applied("LOCK_RELEASED", c) \/ Applied("FAILED", c)
  <2>1. PICK e \in delivered : /\ e.type = "payment_intent.canceled"
                               /\ e.obj.id = IntentId(c)
                               /\ MapOf(e) \in payment.applied
    BY <1>1, <1>3, DeliveredIsKnown DEF Announced, IntentEvents
  <2>2. /\ MapOf(e).payment_event \in {"LOCK_RELEASED", "FAILED"}
        /\ MapOf(e).external_id = IntentId(c)
    BY <2>1 DEF MapOf, MapPaymentIntentEvent, CanceledUpdate, FailedUpdate,
                PaymentUpdate, SessionEvents
  <2> QED BY <2>1, <2>2 DEF Applied
<1>4. ASSUME order[c].status = "expired",
             ~ToCome("checkout.session.expired", SessionId(c))
      PROVE  SessionFailed(c)
  <2>1. PICK e \in delivered : /\ e.type = "checkout.session.expired"
                               /\ e.obj.id = SessionId(c)
                               /\ MapOf(e) \in payment.applied
    BY <1>1, <1>4, DeliveredIsKnown DEF Announced, SessionEvents
  <2>2. MapOf(e).payment_event = "FAILED" /\ MapOf(e).provider_event_id = e
    BY <2>1 DEF MapOf, MapSessionEvent, FailedUpdate, PaymentUpdate, SessionEvents
  <2> QED BY <2>1, <2>2 DEF SessionFailed
<1>5. ASSUME order[c].status = "requires_capture",
             ~ToCome("payment_intent.amount_capturable_updated", IntentId(c))
      PROVE  Applied("LOCKED", c)
  <2>1. PICK e \in delivered : /\ e.type = "payment_intent.amount_capturable_updated"
                               /\ e.obj.id = IntentId(c)
                               /\ MapOf(e) \in payment.applied
    BY <1>1, <1>5, DeliveredIsKnown DEF Announced, IntentEvents
  <2>2. MapOf(e).payment_event = "LOCKED" /\ MapOf(e).external_id = IntentId(c)
    BY <2>1 DEF MapOf, MapPaymentIntentEvent, LockedUpdate, PaymentUpdate, SessionEvents
  <2> QED BY <2>1, <2>2 DEF Applied
<1>6. ASSUME order[c].status = "declined",
             ~\E e \in events \ delivered :
                 /\ e.type = "payment_intent.payment_failed"
                 /\ e.obj.id = IntentId(c) /\ e.n = attempts[c]
      PROVE  AttemptFailed(c, attempts[c])
  <2>1. PICK e \in delivered : /\ e.type = "payment_intent.payment_failed"
                               /\ e.obj.id = IntentId(c) /\ e.n = attempts[c]
    BY <1>1, <1>6 DEF Announced, Said
  <2>2. e.type \in IntentEvents /\ e.type \notin SessionEvents
    BY <2>1 DEF IntentEvents, SessionEvents
  <2>3. MapOf(e) \in payment.applied
    BY <2>2 DEF OutcomeInv, Heeds
  <2>4. MapOf(e) = PaymentUpdate("FAILED", 0, IntentId(c), e)
    BY <2>1, <2>2 DEF MapOf, MapPaymentIntentEvent, FailedUpdate
  <2> QED BY <2>1, <2>3, <2>4 DEF AttemptFailed, PaymentUpdate
<1> QED BY <1>2, <1>3, <1>4, <1>5, <1>6

-----------------------------------------------------------------------------
(* A payment prepared once stays bound: the inductive invariant beside PInv.   *)

HandledTypes == SessionEvents \cup IntentEvents \cup ReviewEvents
MentionsIntent(e, c) == IntentId(c) \in {e.obj.id, e.obj.payment_intent}

\* Until prepare_transaction() has returned, nobody can have paid, nor can anything
\* here or at Stripe mention the checkout's intent.
FreshOrder(c) ==
    /\ order[c].status \in {"open", "expired"} /\ order[c].has_payment_intent = FALSE
    /\ \A e \in events : e.type \in HandledTypes => ~MentionsIntent(e, c)

FreshLocal(c) ==
    /\ payment.external_id \notin {SessionId(c), IntentId(c)}
    /\ \A u \in payment.applied : u.external_id # IntentId(c)
    /\ polled # <<"intent", c>>
    /\ polled # None /\ polled[1] = "update" => polled[2].external_id # IntentId(c)

SoleBound ==
    \A c \in Checkout :
        /\ DOMAIN order = {c}
        /\ \E u \in payment.applied : u.external_id = IntentId(c)
        => payment.external_id = IntentId(c)

BoundInv ==
    /\ \A c \in preparing : FreshOrder(c) /\ FreshLocal(c)
    /\ SoleBound

\* What Stripe does to other orders, and to a page nobody has opened.
LEMMA MoveKeepsFresh ==
    ASSUME PInv, NEW c \in preparing, FreshOrder(c), NEW d \in Checkout, NEW amount,
           \/ Buyer(d) \/ ExpireSession(d) \/ SettleDelayed(d) \/ FailDelayed(d)
           \/ CancelIntent(d) \/ CaptureIntent(d, amount)
    PROVE  FreshOrder(c)'
<1>1. PICK status, fields, new :
         /\ Transition(d, status, fields) /\ Emit(new)
         /\ \A e \in new :
              \/ \E type \in SessionEvents : e = SessionEvent(d, type)
              \/ \E type \in IntentEvents : e = IntentEvent(d, type)
  BY MoveIs DEF PInv
<1>2. /\ c \in DOMAIN order /\ order[c].status \in {"open", "expired"}
      /\ order[c].has_payment_intent = FALSE
  BY DEF PInv, PluginInv, FreshOrder
<1>3. /\ d \in DOMAIN order /\ OrderOK(order[d])
      /\ status # order[d].status /\ order[d].status # "expired"
      /\ order'[d] = [f \in DOMAIN order[d] |->
                          IF f = "status" THEN status
                          ELSE IF f \in DOMAIN fields THEN fields[f]
                          ELSE order[d][f]]
      /\ \A b \in DOMAIN order : b # d => order'[b] = order[b]
  BY <1>1, TransitionEffect DEF PInv, StripeInv
<1>4. events' = events \cup new
  BY <1>1 DEF Emit
<1>5. CASE d # c
  <2>1. order'[c] = order[c]
    BY <1>2, <1>3, <1>5
  <2>2. ASSUME NEW e \in new PROVE ~MentionsIntent(e, c)
    <3>1. c \in Checkout
      BY <1>2 DEF PInv, StripeInv, OrdersOK
    <3>2. e.obj.id \in {SessionId(d), IntentId(d)}
          /\ e.obj.payment_intent \in {None, IntentId(d)}
      BY <1>1 DEF SessionEvent, SessionObject, IntentEvent, PaymentIntentObject
    <3> QED BY <1>5, <3>1, <3>2, IdsDistinct DEF MentionsIntent
  <2> QED BY <1>4, <2>1, <2>2 DEF FreshOrder, MentionsIntent
\* The only move on the fresh order itself is its expiry.
<1>6. CASE d = c
  <2>1. order[c].status = "open"
    BY <1>2, <1>3, <1>6
  <2>2. ~Buyer(c)
    BY DEF Buyer, Decline, PayDelayed, PayManual, PayAutomatic, Attempt
  <2>3. ~SettleDelayed(c) /\ ~FailDelayed(c) /\ ~CaptureIntent(c, amount)
    BY <2>1 DEF SettleDelayed, FailDelayed, CaptureIntent, StatusIs
  <2>4. ~CancelIntent(c)
    BY <2>1 DEF CancelIntent, Transition, Transitions
  <2>5. /\ Transition(c, "expired", <<>>)
        /\ Emit({SessionEvent(c, "checkout.session.expired")})
    BY <1>6, <2>2, <2>3, <2>4 DEF ExpireSession
  <2>6. /\ order'[c].status = "expired" /\ order'[c].has_payment_intent = FALSE
    <3>1. order'[c] = [f \in DOMAIN order[c] |->
                          IF f = "status" THEN "expired"
                          ELSE IF f \in DOMAIN <<>> THEN <<>>[f]
                          ELSE order[c][f]]
      BY <2>5, TransitionEffect DEF PInv, StripeInv
    <3> QED BY <1>2, <1>3, <1>6, <3>1, OrderFields
  <2>7. ~MentionsIntent(SessionEvent(c, "checkout.session.expired"), c)
    <3>1. c \in Checkout
      BY <1>6
    <3> QED BY <2>6, <3>1, IdsDistinct DEF MentionsIntent, SessionEvent, SessionObject
  <2> QED BY <2>5, <2>6, <2>7 DEF FreshOrder, MentionsIntent, Emit
<1> QED BY <1>5, <1>6

\* A review is of an intent that is known already.
LEMMA ReviewKeepsFresh ==
    ASSUME PInv, NEW c \in preparing, FreshOrder(c), NEW d \in Checkout,
           OpenReview(d) \/ CloseReview(d)
    PROVE  FreshOrder(c)'
<1>1. c \in DOMAIN order /\ c \in Checkout
  BY DEF PInv, PluginInv, StripeInv, OrdersOK
<1>2. d # c
  <2>1. CASE OpenReview(d)
    BY <2>1 DEF OpenReview, StatusIs, FreshOrder
  <2>2. CASE CloseReview(d)
    <3>1. PICK e \in events : e.type = "review.opened" /\ e.obj.id = ReviewId(d)
      BY <2>2 DEF CloseReview, ReviewIs
    <3>2. PICK b \in DOMAIN order :
             e.obj.id = ReviewId(b) /\ e.obj.payment_intent = IntentId(b)
      BY <3>1 DEF PInv, StripeInv, EventTells, ReviewEvents
    <3>3. b = d
      BY <3>1, <3>2 DEF ReviewId
    <3> QED BY <3>1, <3>2, <3>3
            DEF FreshOrder, MentionsIntent, HandledTypes, ReviewEvents
  <2> QED BY <2>1, <2>2
<1>3. PICK type, reason : Emit({ReviewEvent(d, type, reason)}) /\ UNCHANGED order
  BY DEF OpenReview, CloseReview
<1>4. ~MentionsIntent(ReviewEvent(d, type, reason), c)
  <2>1. ReviewId(d) # IntentId(c)
    BY DEF ReviewId, IntentId
  <2> QED BY <1>2, <2>1, IdsDistinct DEF MentionsIntent, ReviewEvent, ReviewObject
<1> QED BY <1>3, <1>4 DEF FreshOrder, MentionsIntent, Emit

\* An update that does not name the intent of a checkout leaves it fresh, and one
\* of a payment with a single checkout keeps it bound.
LEMMA ApplyKeepsBound ==
    ASSUME PInv, BoundInv, NEW update, update # None => TellsTruth(update, order),
           payment' = ApplyPaymentUpdate(payment, update),
           \A c \in preparing : update # None => update.external_id # IntentId(c),
           UNCHANGED <<order, preparing>>, polled' \in {polled, None},
           \A c \in preparing : FreshOrder(c)'
    PROVE  BoundInv'
<1>1. DOMAIN payment = {"id", "external_id", "applied"}
  BY DEF PInv, PluginInv, PaymentOK, NewPayment
<1>2. \/ payment' = payment
      \/ /\ update # None
         /\ payment'.applied = payment.applied \cup {update}
         /\ payment'.external_id = IF update.external_id = None
                                   THEN payment.external_id ELSE update.external_id
  BY <1>1 DEF ApplyPaymentUpdate
<1>3. ASSUME update # None
      PROVE  update.external_id \in {None} \cup {IntentId(c) : c \in DOMAIN order}
  BY <1>3 DEF TellsTruth
<1>4. ASSUME NEW c \in preparing PROVE FreshLocal(c)'
  <2>1. FreshLocal(c) /\ c \in Checkout /\ <<"intent", c>> # None
    BY IdAssumption DEF BoundInv, PInv, PluginInv, StripeInv, OrdersOK
  <2>2. payment'.external_id \notin {SessionId(c), IntentId(c)}
    BY <1>2, <1>3, <2>1, IdsDistinct DEF FreshLocal
  <2>3. \A u \in payment'.applied : u.external_id # IntentId(c)
    BY <1>2, <2>1 DEF FreshLocal
  <2>4. polled' # <<"intent", c>> /\ (polled' # None /\ polled'[1] = "update" =>
                                       polled'[2].external_id # IntentId(c))
    BY <2>1 DEF FreshLocal
  <2> QED BY <2>2, <2>3, <2>4 DEF FreshLocal
<1>5. SoleBound'
  <2> SUFFICES ASSUME NEW c \in Checkout, DOMAIN order = {c},
                      NEW u \in payment'.applied, u.external_id = IntentId(c)
               PROVE  payment'.external_id = IntentId(c)
    BY DEF SoleBound
  <2>1. CASE u \in payment.applied
    BY <1>2, <1>3, <2>1 DEF BoundInv, SoleBound
  <2>2. CASE u \notin payment.applied
    BY <1>2, <2>2, IdsDistinct
  <2> QED BY <2>1, <2>2
<1> QED BY <1>4, <1>5 DEF BoundInv

\* An update names an intent only if its event does.
LEMMA UpdateMentions ==
    ASSUME NEW e, NEW c \in Checkout, HandleCallback(payment, e) # None,
           HandleCallback(payment, e).external_id = IntentId(c)
    PROVE  e.type \in HandledTypes /\ MentionsIntent(e, c)
<1>1. IsCorrelated(payment, e.obj)
  BY DEF HandleCallback
<1>2. CASE e.type \in SessionEvents
  <2>1. HandleCallback(payment, e) = MapSessionEvent(e)
    BY <1>1, <1>2 DEF HandleCallback, SessionEvents, IntentEvents, ReviewEvents
  <2> QED BY <1>2, <2>1
          DEF MapSessionEvent, FailedUpdate, PaymentUpdate, SessionEvents, HandledTypes,
              MentionsIntent
<1>3. CASE e.type \in IntentEvents
  <2>1. HandleCallback(payment, e) = MapPaymentIntentEvent(e)
    BY <1>1, <1>3 DEF HandleCallback, SessionEvents, IntentEvents, ReviewEvents
  <2>2. MapPaymentIntentEvent(e).external_id = e.obj.id
    BY <1>3 DEF MapPaymentIntentEvent, LockedUpdate, CapturedUpdate, CanceledUpdate,
                FailedUpdate, PaymentUpdate, IntentEvents
  <2> QED BY <1>3, <2>1, <2>2 DEF HandledTypes, MentionsIntent
<1>4. CASE e.type \in ReviewEvents
  <2>1. HandleCallback(payment, e) = MapReviewEvent(e)
    BY <1>1, <1>4 DEF HandleCallback, SessionEvents, IntentEvents, ReviewEvents
  <2> QED BY <1>4, <2>1
          DEF MapReviewEvent, PaymentUpdate, ReviewEvents, HandledTypes, MentionsIntent
<1> QED BY <1>1, <1>2, <1>3, <1>4 DEF HandleCallback

LEMMA PrepareBound ==
    ASSUME PInv, OutcomeInv, BoundInv, NEW c \in Checkout,
           NEW capture_method \in {"automatic", "manual"}, Prepare(c, capture_method)
    PROVE  BoundInv'
<1>1. /\ c \notin DOMAIN order
      /\ order' = [b \in DOMAIN order \cup {c} |->
                      IF b = c THEN NewOrder(PaymentId, capture_method) ELSE order[b]]
      /\ preparing' = preparing \cup {c}
      /\ UNCHANGED <<events, payment, polled>>
  BY DEF Prepare, Exists
<1>2. PaymentOK(payment, order, delivered) /\ PollOK(polled, order)
  BY DEF PInv, PluginInv
<1>3. \A d \in DOMAIN order : /\ IntentId(c) # IntentId(d) /\ SessionId(c) # SessionId(d)
                              /\ IntentId(c) # SessionId(d) /\ SessionId(c) # IntentId(d)
  BY <1>1, IdsDistinct
<1>4. /\ IntentId(c) # None /\ SessionId(c) # None /\ <<"intent", c>> # None
  BY IdAssumption
<1>5. FreshOrder(c)'
  <2>1. ASSUME NEW e \in events, e.type \in HandledTypes PROVE ~MentionsIntent(e, c)
    <3>1. EventTells(e, order) /\ Carries(e)
      BY DEF PInv, StripeInv, OutcomeInv, EventsOK
    <3>2. CASE e.type \in SessionEvents
      <4>1. e.obj.payment_intent \in {None} \cup {IntentId(d) : d \in DOMAIN order}
        BY <3>1, <3>2 DEF EventTells
      <4>2. e.obj.id # IntentId(c)
        BY <3>1, <3>2 DEF Carries, IsSessionId, IntentId
      <4> QED BY <1>3, <1>4, <4>1, <4>2 DEF MentionsIntent
    <3>3. CASE e.type \in IntentEvents
      <4>1. e.obj.id \in {IntentId(d) : d \in DOMAIN order} /\ e.obj.payment_intent = None
        BY <3>1, <3>3 DEF EventTells, Carries
      <4> QED BY <1>3, <1>4, <4>1 DEF MentionsIntent
    <3>4. CASE e.type \in ReviewEvents
      <4>1. PICK d \in DOMAIN order :
               e.obj.id = ReviewId(d) /\ e.obj.payment_intent = IntentId(d)
        BY <3>1, <3>4 DEF EventTells
      <4>2. ReviewId(d) # IntentId(c)
        BY DEF ReviewId, IntentId
      <4> QED BY <1>3, <4>1, <4>2 DEF MentionsIntent
    <3> QED BY <2>1, <3>2, <3>3, <3>4 DEF HandledTypes
  <2> QED BY <1>1, <2>1 DEF FreshOrder, MentionsIntent, NewOrder
<1>6. \A u \in payment.applied : u.external_id # IntentId(c)
  BY <1>2, <1>3, <1>4 DEF PaymentOK, TellsTruth
<1>7. FreshLocal(c)'
  <2>1. payment.external_id \notin {SessionId(c), IntentId(c)}
    BY <1>2, <1>3, <1>4 DEF PaymentOK, Bound
  <2>2. polled # <<"intent", c>>
    BY <1>1, <1>2, <1>4 DEF PollOK
  <2>3. polled # None /\ polled[1] = "update" => polled[2].external_id # IntentId(c)
    BY <1>2, <1>3, <1>4 DEF PollOK, TellsTruth
  <2> QED BY <1>1, <1>6, <2>1, <2>2, <2>3 DEF FreshLocal
<1>8. ASSUME NEW b \in preparing PROVE FreshOrder(b)' /\ FreshLocal(b)'
  <2>1. b \in DOMAIN order /\ FreshOrder(b) /\ FreshLocal(b)
    BY DEF BoundInv, PInv, PluginInv
  <2>2. order'[b] = order[b]
    BY <1>1, <2>1
  <2> QED BY <1>1, <2>1, <2>2 DEF FreshOrder, FreshLocal, MentionsIntent
<1>9. SoleBound'
  <2> SUFFICES ASSUME NEW d \in Checkout, DOMAIN order' = {d},
                      NEW u \in payment.applied, u.external_id = IntentId(d)
               PROVE  FALSE
    BY <1>1 DEF SoleBound
  <2>1. d = c
    BY <1>1
  <2> QED BY <1>6, <2>1
<1> QED BY <1>1, <1>5, <1>7, <1>8, <1>9 DEF BoundInv

LEMMA SavePreparedBound ==
    ASSUME PInv, BoundInv, NEW c \in Checkout, SavePrepared(c)
    PROVE  BoundInv'
<1>1. /\ c \in preparing /\ c \in DOMAIN order /\ preparing' = preparing \ {c}
      /\ payment' = [payment EXCEPT !.external_id = SessionId(c)]
      /\ UNCHANGED <<order, events, polled>>
  BY DEF SavePrepared, stripe, PInv, PluginInv
<1>2. payment'.applied = payment.applied /\ payment'.external_id = SessionId(c)
  BY <1>1 DEF PInv, PluginInv, PaymentOK, NewPayment
<1>3. ASSUME NEW b \in preparing, b # c PROVE FreshOrder(b)' /\ FreshLocal(b)'
  BY <1>1, <1>2, <1>3, IdsDistinct DEF BoundInv, FreshOrder, FreshLocal, MentionsIntent
<1>4. SoleBound'
  <2> SUFFICES ASSUME NEW d \in Checkout, DOMAIN order = {d},
                      NEW u \in payment.applied, u.external_id = IntentId(d)
               PROVE  FALSE
    BY <1>1, <1>2 DEF SoleBound
  <2>1. d = c
    BY <1>1
  <2> QED BY <1>1, <2>1 DEF BoundInv, FreshLocal
<1> QED BY <1>1, <1>3, <1>4 DEF BoundInv

\* A poll that was sent out on a known intent, or brings an update about it.
LEMMA PollBound ==
    ASSUME BoundInv, UNCHANGED <<order, events, payment, preparing>>,
           \A c \in preparing :
               /\ polled' # <<"intent", c>>
               /\ polled' # None /\ polled'[1] = "update" =>
                    polled'[2].external_id # IntentId(c)
    PROVE  BoundInv'
BY DEF BoundInv, FreshOrder, FreshLocal, SoleBound, MentionsIntent

LEMMA PollSessionBound ==
    ASSUME PInv, BoundInv, NEW c \in Checkout, PollSession(c)
    PROVE  BoundInv'
<1> DEFINE update == FailedUpdate(SessionObject(c, order[c]), None, None)
<1>1. \/ polled' = <<"update", update>> \/ polled' = None \/ polled' = <<"intent", c>>
  BY DEF PollSession, PollAnswers
<1>2. update.external_id = None
  BY DEF FailedUpdate, PaymentUpdate
<1>3. ASSUME NEW b \in preparing
      PROVE  /\ polled' # <<"intent", b>>
             /\ polled' # None /\ polled'[1] = "update" =>
                  polled'[2].external_id # IntentId(b)
  <2>1. b # c
    BY DEF PollSession, BoundInv, FreshLocal
  <2>2. b \in Checkout /\ IntentId(b) # None /\ <<"intent", b>> # None
    BY IdAssumption DEF PInv, PluginInv, StripeInv, OrdersOK
  <2> QED BY <1>1, <1>2, <2>1, <2>2
<1> QED BY <1>3, PollBound DEF PollSession, stripe

LEMMA PollIntentBound ==
    ASSUME PInv, BoundInv, NEW c \in Checkout, PollIntent(c)
    PROVE  BoundInv'
<1> DEFINE obj == PaymentIntentObject(c, order[c])
           update == MapPulledIntent(obj)
<1>1. polled' = IF update = None THEN None ELSE <<"update", update>>
  BY DEF PollIntent, PollAnswers
<1>2. obj.id = IntentId(c)
  BY DEF PaymentIntentObject
<1>3. ASSUME update # None PROVE update.external_id = IntentId(c)
  <2>1. \/ update = LockedUpdate(obj, None) \/ update = CapturedUpdate(obj, None)
        \/ update = CanceledUpdate(obj, None)
    BY <1>3 DEF MapPulledIntent
  <2> QED BY <1>2, <2>1
          DEF LockedUpdate, CapturedUpdate, CanceledUpdate, FailedUpdate, PaymentUpdate
<1>4. ASSUME NEW b \in preparing
      PROVE  /\ polled' # <<"intent", b>>
             /\ polled' # None /\ polled'[1] = "update" =>
                  polled'[2].external_id # IntentId(b)
  <2>1. b # c
    BY DEF PollIntent, BoundInv, FreshLocal
  <2>2. b \in Checkout /\ <<"intent", b>> # None
    BY IdAssumption DEF PInv, PluginInv, StripeInv, OrdersOK
  <2> QED BY <1>1, <1>3, <2>1, <2>2, IdsDistinct
<1> QED BY <1>4, PollBound DEF PollIntent, stripe

LEMMA ApplyPolledBound ==
    ASSUME PInv, BoundInv, ApplyPolled
    PROVE  BoundInv'
<1>1. PICK update : update = polled[2]
  OBVIOUS
<1>2. /\ polled # None /\ polled[1] = "update" /\ polled' = None
      /\ payment' = ApplyPaymentUpdate(payment, update)
      /\ UNCHANGED <<order, events, preparing>>
  BY <1>1 DEF ApplyPolled, Apply, stripe
<1>3. TellsTruth(update, order)
  BY <1>1, <1>2 DEF PInv, PluginInv, PollOK
<1>4. \A c \in preparing : update.external_id # IntentId(c)
  BY <1>1, <1>2 DEF BoundInv, FreshLocal
<1>5. \A c \in preparing : FreshOrder(c)'
  BY <1>2 DEF BoundInv, FreshOrder, MentionsIntent
<1> QED BY <1>2, <1>3, <1>4, <1>5, ApplyKeepsBound

LEMMA CallbackBound ==
    ASSUME PInv, BoundInv, NEW e \in events, Callback(e)
    PROVE  BoundInv'
<1>1. PICK update : update = HandleCallback(payment, e)
  OBVIOUS
<1>2. /\ payment' = ApplyPaymentUpdate(payment, update)
      /\ UNCHANGED <<order, events, preparing, polled>>
  BY <1>1 DEF Callback, Apply, stripe
<1>3. update # None => TellsTruth(update, order)
  BY <1>1, CallbackTells DEF PInv, StripeInv
<1>4. ASSUME NEW c \in preparing, update # None PROVE update.external_id # IntentId(c)
  <2>1. c \in Checkout /\ FreshOrder(c)
    BY DEF BoundInv, PInv, PluginInv, StripeInv, OrdersOK
  <2> QED BY <1>1, <1>4, <2>1, UpdateMentions DEF FreshOrder
<1>5. \A c \in preparing : FreshOrder(c)'
  BY <1>2 DEF BoundInv, FreshOrder, MentionsIntent
<1> QED BY <1>2, <1>3, <1>4, <1>5, ApplyKeepsBound

\* Stripe's moves leave what is known here alone, and add no order.
LEMMA StripeBound ==
    ASSUME BoundInv, UNCHANGED <<payment, polled, preparing>>,
           DOMAIN order' = DOMAIN order, \A c \in preparing : FreshOrder(c)'
    PROVE  BoundInv'
BY DEF BoundInv, FreshLocal, SoleBound

LEMMA BoundInvNext ==
    ASSUME PInv, OutcomeInv, BoundInv, [Next]_vars
    PROVE  BoundInv'
<1>1. ASSUME NEW c \in Checkout, NEW amount,
             \/ Buyer(c) \/ ExpireSession(c) \/ SettleDelayed(c) \/ FailDelayed(c)
             \/ CancelIntent(c) \/ CaptureIntent(c, amount),
             UNCHANGED <<payment, polled, preparing>>
      PROVE  BoundInv'
  <2>1. DOMAIN order' = DOMAIN order
    BY <1>1, MoveIs, TransitionEffect DEF PInv, StripeInv
  <2>2. \A b \in preparing : FreshOrder(b)'
    BY <1>1, MoveKeepsFresh DEF BoundInv
  <2> QED BY <1>1, <2>1, <2>2, StripeBound
<1>2. ASSUME UNCHANGED <<order, events, payment, polled, preparing>> PROVE BoundInv'
  BY <1>2 DEF BoundInv, FreshOrder, FreshLocal, SoleBound, MentionsIntent
<1>3. ASSUME NEW c \in Checkout, StripeActs(c) PROVE BoundInv'
  <2>1. UNCHANGED <<payment, polled, preparing>>
    BY <1>3 DEF StripeActs, plugin
  <2>2. CASE OpenReview(c) \/ CloseReview(c)
    <3>1. UNCHANGED order
      BY <2>2 DEF OpenReview, CloseReview
    <3>2. \A b \in preparing : FreshOrder(b)'
      BY <2>2, ReviewKeepsFresh DEF BoundInv
    <3> QED BY <2>1, <3>1, <3>2, StripeBound
  <2> QED BY <1>1, <1>3, <2>1, <2>2 DEF StripeActs
<1>4. ASSUME NEW c \in Checkout, NEW capture_method \in {"automatic", "manual"},
             Prepare(c, capture_method)
      PROVE  BoundInv'
  BY <1>4, PrepareBound
<1>5. ASSUME NEW c \in Checkout, SavePrepared(c) PROVE BoundInv'
  BY <1>5, SavePreparedBound
<1>6. ASSUME NEW c \in Checkout, PollSession(c) \/ PollIntent(c) PROVE BoundInv'
  BY <1>6, PollSessionBound, PollIntentBound
<1>7. ASSUME NEW c \in Checkout, NEW k \in Caller, StartCharge(k, c) \/ StartRelease(k, c)
      PROVE  BoundInv'
  BY <1>2, <1>7 DEF StartCharge, StartRelease, RetrieveForCall, stripe
<1>8. ASSUME NEW k \in Caller, FinishCharge(k) \/ FinishRelease(k) PROVE BoundInv'
  <2>1. PICK c : c = call[k].c
    OBVIOUS
  <2>2. /\ UNCHANGED <<payment, polled, preparing>>
        /\ CancelIntent(c) \/ \E amount : CaptureIntent(c, amount)
    BY <1>8, <2>1 DEF FinishCharge, FinishRelease
  <2>3. c \in Checkout
    BY <1>8, <2>1
    DEF FinishCharge, FinishRelease, PInv, StripeInv, OrdersOK, PluginInv, CallOK
  <2> QED BY <1>1, <2>2, <2>3
<1>9. ASSUME NEW k \in Caller, FailCall(k) PROVE BoundInv'
  BY <1>2, <1>9 DEF FailCall, stripe
<1>10. CASE ApplyPolled
  BY <1>10, ApplyPolledBound
<1>11. ASSUME NEW e \in events, Callback(e) PROVE BoundInv'
  BY <1>11, CallbackBound
<1>12. CASE UNCHANGED vars
  BY <1>2, <1>12 DEF vars, stripe, plugin
<1>13. CASE Next
  BY <1>3, <1>4, <1>5, <1>6, <1>7, <1>8, <1>9, <1>10, <1>11, <1>13 DEF Next
<1> QED BY <1>12, <1>13

LEMMA BoundInvAlways == Spec => []BoundInv
<1>1. Init => BoundInv
  BY DEF Init, BoundInv, SoleBound, NewPayment
<1>2. PInv /\ OutcomeInv /\ BoundInv /\ [Next]_vars => BoundInv'
  BY BoundInvNext
<1> QED BY <1>1, <1>2, PInvAlways, OutcomeInvAlways, PTL DEF Spec

\* What was delivered was applied with the intent it carries.
LEMMA SoleStaysBound ==
    ASSUME PInv, OutcomeInv, BoundInv
    PROVE  SoleIntentStaysBound
<1> SUFFICES ASSUME NEW c \in Checkout, DOMAIN order = {c}, NEW e \in delivered,
                    e.type \in SessionEvents \cup IntentEvents,
                    IntentId(c) \in {e.obj.id, e.obj.payment_intent}
             PROVE  payment.external_id = IntentId(c)
  BY DEF SoleIntentStaysBound
<1>1. e \in events /\ Carries(e) /\ MapOf(e) \in payment.applied
  BY DEF PInv, StripeInv, OutcomeInv, EventsOK, Heeds
<1>2. MapOf(e).external_id = IntentId(c)
  <2>1. CASE e.type \in SessionEvents
    <3>1. e.obj.payment_intent = IntentId(c)
      BY <1>1, <2>1 DEF Carries, IsSessionId, IntentId
    <3> QED BY <2>1, <3>1
            DEF MapOf, MapSessionEvent, FailedUpdate, PaymentUpdate, SessionEvents
  <2>2. CASE e.type \in IntentEvents
    <3>1. e.obj.id = IntentId(c)
      BY <1>1, <2>2, IdsDistinct DEF Carries
    <3> QED BY <2>2, <3>1
            DEF MapOf, MapPaymentIntentEvent, LockedUpdate, CapturedUpdate,
                CanceledUpdate, FailedUpdate, PaymentUpdate, SessionEvents, IntentEvents
  <2> QED BY <2>1, <2>2
<1> QED BY <1>1, <1>2 DEF BoundInv, SoleBound

-----------------------------------------------------------------------------
(* The theorems. *)

\* The plugin's records and Stripe's keep their shape.
THEOREM PaymentTypeCorrect == Spec => []TypeOK
<1>1. PInv /\ OutcomeInv => TypeOK
  <2> SUFFICES ASSUME PInv, OutcomeInv PROVE TypeOK
    OBVIOUS
  <2>1. /\ DOMAIN order \subseteq Checkout
        /\ \A c \in DOMAIN order : OrderOK(order[c])
        /\ attempts \in [Checkout -> 0..MaxAttempts]
        /\ events \subseteq WebhookEvent({PaymentId}) /\ delivered \subseteq events
        /\ preparing \subseteq DOMAIN order
    BY DEF PInv, StripeInv, PluginInv, OrdersOK, OutcomeInv, EventsOK, Carries
  <2>2. /\ DOMAIN payment = DOMAIN NewPayment(PaymentId)
        /\ payment.id = PaymentId
        /\ payment.external_id \in Ids \cup {None}
        /\ AppliedEventIds(payment) \subseteq delivered
    BY <2>1 DEF PInv, PluginInv, PaymentOK, Bound, Ids
  <2>3. /\ DOMAIN call = Caller
        /\ \A k \in Caller : call[k] # None =>
             call[k].op \in {"charge", "release"} /\ call[k].c \in Checkout
    BY <2>1 DEF PInv, PluginInv, CallOK
  <2>4. polled # None =>
          \/ polled[1] = "intent" /\ polled[2] \in Checkout
          \/ polled[1] = "update" /\ polled[2].provider_event_id = None
    BY <2>1 DEF PInv, PluginInv, PollOK
  <2>5. /\ charged \in [Checkout -> Seq([asked : ChargeAmounts, told : Nat])]
        /\ released \in [Checkout -> Nat]
    BY DEF PInv, ReportInv, Report
  <2> QED BY <2>1, <2>2, <2>3, <2>4, <2>5 DEF TypeOK, OrderOK
<1> QED BY <1>1, PInvAlways, OutcomeInvAlways, PTL

\* Whatever order webhooks and stale polls are applied in, what the payment was
\* told about its money is what happened at Stripe.
THEOREM AppliedMoneyIsAlwaysTrue == Spec => []AppliedMoneyIsTrue
<1>1. PInv => AppliedMoneyIsTrue
  <2> SUFFICES ASSUME PInv, NEW c \in Checkout, NEW u \in payment.applied,
                      u.external_id = IntentId(c)
               PROVE  /\ u.payment_event = "PAYMENT_CAPTURED" =>
                           /\ order[c].status = "succeeded"
                           /\ u.amount = FromMinor(order[c].amount_received, Currency)
                      /\ u.payment_event = "LOCKED" =>
                           u.amount = FromMinor(Total, Currency)
                      /\ u.payment_event = "LOCK_RELEASED" =>
                           /\ order[c].status = "canceled"
                           /\ order[c].amount_received = 0
                           /\ order[c].capture_method = "manual"
    BY DEF AppliedMoneyIsTrue
  <2>1. TellsTruth(u, order)
    BY DEF PInv, PluginInv, PaymentOK
  <2>2. c \in DOMAIN order
    BY <2>1, IdsDistinct DEF TellsTruth
  <2> QED BY <2>1, <2>2 DEF TellsTruth
<1> QED BY <1>1, PInvAlways, PTL

\* However many charge() and release_lock() calls race, one moves the money.
THEOREM OneCallAlwaysMovesTheMoney == Spec => []OneCallMovesTheMoney
<1>1. PInv => OneCallMovesTheMoney
  BY DEF PInv, ReportInv, ReportsOK, OneCallMovesTheMoney
<1> QED BY <1>1, PInvAlways, PTL

\* What charge() reports is what was asked for, as near as the currency allows,
\* for every amount in every currency.
THEOREM AlwaysChargedAsAsked == Spec => []ChargedAsAsked
<1>1. PInv => ChargedAsAsked
  BY DEF PInv, ReportInv, ReportsOK, ChargedAsAsked
<1> QED BY <1>1, PInvAlways, PTL

\* A payment prepared once is bound by the first event delivered that carries its
\* intent, and nothing unbinds it, whatever arrives late.
THEOREM SoleIntentAlwaysStaysBound == Spec => []SoleIntentStaysBound
<1>1. PInv /\ OutcomeInv /\ BoundInv => SoleIntentStaysBound
  BY SoleStaysBound
<1> QED BY <1>1, PInvAlways, OutcomeInvAlways, BoundInvAlways, PTL

\* No outcome of a checkout is lost, a failed attempt's included: it was applied,
\* whatever prepare_transaction() saved in between, or is still to be delivered.
THEOREM PaymentOutcomesNeverLost == Spec => []NoOutcomeLost
<1>1. PInv /\ OutcomeInv => NoOutcomeLost
  BY OutcomesKept
<1> QED BY <1>1, PInvAlways, OutcomeInvAlways, PTL
=============================================================================
