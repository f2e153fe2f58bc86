------------------------ MODULE CallbackRoutingProofs ------------------------
(* Proofs about CallbackRouting, for any number of payments and checkouts.     *)
EXTENDS CallbackRouting, CurrenciesProofs

-----------------------------------------------------------------------------
(* The inductive invariant. *)

OrdersOK ==
    /\ DOMAIN order \subseteq Checkout
    /\ \A c \in DOMAIN order :
         /\ DOMAIN order[c] = DOMAIN NewOrder(None, "automatic")
         /\ order[c].owner \in Payment \cup {None}
         /\ order[c].status \in CheckoutStatus

\* An event about checkout c, and the evidence a payload of its kind carries.
About(e, c, orders) ==
    /\ e.obj.metadata \in {None, orders[c].owner}
    /\ e.obj.client_reference_id \in {None, orders[c].owner}
    /\ \/ /\ e.type \in SessionEvents
          /\ e.obj.id = SessionId(c)
          /\ e.obj.payment_intent \in {None, IntentId(c)}
          /\ e.obj.metadata = orders[c].owner
       \/ /\ e.type \in IntentEvents
          /\ e.obj.id = IntentId(c)
          /\ e.obj.payment_intent = None
          /\ e.obj.metadata = orders[c].owner
       \/ /\ e.type \in ReviewEvents
          /\ e.obj.id = ReviewId(c)
          /\ e.obj.payment_intent = IntentId(c)
       \/ /\ IsRefundEvent(e)
          /\ e.obj.id = <<"re", c>>
          /\ e.obj.payment_intent = IntentId(c)

EventsOK == \A e \in events : \E c \in DOMAIN order : About(e, c, order)

\* A payment is bound to a checkout of its own, if to any.
BoundTo(id, p, orders) ==
    \E c \in DOMAIN orders :
        id \in {SessionId(c), IntentId(c)} /\ orders[c].owner = p

PaymentOK(p) ==
    /\ DOMAIN payment[p] = DOMAIN NewPayment(p)
    /\ payment[p].id = p
    /\ payment[p].external_id # None => BoundTo(payment[p].external_id, p, order)
    /\ AppliedEventIds(payment[p]) \subseteq events
    /\ \A e \in AppliedEventIds(payment[p]) : Owner(e.obj) = p

RInv ==
    /\ OrdersOK
    /\ EventsOK
    /\ delivered \subseteq events
    /\ DOMAIN payment = Payment
    /\ \A p \in Payment : PaymentOK(p)

\* A checkout being prepared is one of a local payment's.
PreparingOK == \A c \in preparing : c \in DOMAIN order /\ order[c].owner \in Payment

-----------------------------------------------------------------------------
(* Ids and kinds of events. *)

LEMMA IdsDistinct ==
    /\ \A c, d : IntentId(c) = IntentId(d) => c = d
    /\ \A c, d : SessionId(c) = SessionId(d) => c = d
    /\ \A c, d : SessionId(c) # IntentId(d)
    /\ \A c, d : ReviewId(c) \notin {SessionId(d), IntentId(d)}
    /\ \A c, d : <<"re", c>> \notin {SessionId(d), IntentId(d)}
    /\ \A c \in Checkout : IntentId(c) # None /\ SessionId(c) # None
BY IdAssumption DEF SessionId, IntentId, ReviewId

LEMMA Kinds ==
    ASSUME NEW type
    PROVE  /\ type \in SessionEvents =>
                type \notin IntentEvents \cup ReviewEvents \cup {"refund.updated"}
           /\ type \in IntentEvents =>
                type \notin SessionEvents \cup ReviewEvents \cup {"refund.updated"}
           /\ type \in ReviewEvents =>
                type \notin SessionEvents \cup IntentEvents \cup {"refund.updated"}
BY DEF SessionEvents, IntentEvents, ReviewEvents

\* An event's own id tells the checkout it is about.
LEMMA AboutIsOwner ==
    ASSUME NEW e, NEW c, About(e, c, order)
    PROVE  Owner(e.obj) = order[c].owner
BY DEF About, Owner, SessionId, IntentId, ReviewId

\* All evidence of an event names the owner of its checkout.
LEMMA EvidenceIsOwner ==
    ASSUME NEW e, NEW c, About(e, c, order)
    PROVE  Evidence(e.obj) \subseteq {order[c].owner} \ {None}
BY DEF About, Evidence

\* A bound id found in an event is of the checkout the event is about.
LEMMA BindingIsOwner ==
    ASSUME NEW e, NEW c, About(e, c, order), NEW p, NEW id, id # None,
           BoundTo(id, p, order), id \in {e.obj.id, e.obj.payment_intent}
    PROVE  order[c].owner = p
<1>1. PICK d \in DOMAIN order :
           id \in {SessionId(d), IntentId(d)} /\ order[d].owner = p
  BY DEF BoundTo
<1>2. id \in {SessionId(c), IntentId(c), ReviewId(c), <<"re", c>>}
  BY DEF About
<1>3. c = d
  BY <1>1, <1>2, IdsDistinct
<1> QED BY <1>1, <1>3

\* A processor accepts only events about its own payment's checkouts.
LEMMA AcceptedIsOwn ==
    ASSUME RInv, NEW p \in Payment, NEW e, NEW c, About(e, c, order),
           IsCorrelated(payment[p], e.obj)
    PROVE  order[c].owner = p
<1>1. payment[p].id = p /\ (payment[p].external_id # None =>
                               BoundTo(payment[p].external_id, p, order))
  BY DEF RInv, PaymentOK
<1>2. CASE p \in Evidence(e.obj)
  BY <1>2, EvidenceIsOwner
<1>3. CASE /\ payment[p].external_id # None
           /\ payment[p].external_id \in {e.obj.id, e.obj.payment_intent}
  BY <1>1, <1>3, BindingIsOwner
<1> QED BY <1>1, <1>2, <1>3 DEF IsCorrelated

\* The converse of acceptance: evidence never speaks against the owner.
LEMMA OwnerNotRejected ==
    ASSUME RInv, NEW p \in Payment, NEW e, NEW c, About(e, c, order), order[c].owner = p
    PROVE  ~Rejects(payment[p], e.obj)
<1>1. payment[p].id = p
  BY DEF RInv, PaymentOK
<1> QED BY <1>1, EvidenceIsOwner DEF Rejects

-----------------------------------------------------------------------------
(* What an event's update binds. *)

LEMMA UpdateBinds ==
    ASSUME NEW local, NEW e, NEW c, About(e, c, order), HandleEvent(local, e) # None
    PROVE  LET u == HandleEvent(local, e) IN
             /\ IsCorrelated(local, e.obj)
             /\ u.provider_event_id = e
             /\ u.external_id \in {None, IntentId(c)}
<1> DEFINE u == HandleEvent(local, e)
<1>1. IsCorrelated(local, e.obj)
  BY DEF HandleEvent, HandleCallback
<1>2. CASE IsRefundEvent(e)
  <2>1. u = PaymentUpdate("REFUND_CONFIRMED", 0, e.obj.payment_intent, e)
    BY <1>1, <1>2 DEF HandleEvent
  <2>2. e.obj.payment_intent = IntentId(c)
    BY <1>2, Kinds DEF About, IsRefundEvent
  <2> QED BY <1>1, <2>1, <2>2 DEF PaymentUpdate
<1>3. CASE e.type \in SessionEvents
  <2>1. ~IsRefundEvent(e) /\ e.type \notin IntentEvents \cup ReviewEvents
    BY <1>3, Kinds DEF IsRefundEvent
  <2>2. u = MapSessionEvent(e)
    BY <1>1, <1>3, <2>1 DEF HandleEvent, HandleCallback
  <2>3. e.obj.payment_intent \in {None, IntentId(c)}
    BY <1>3, <2>1 DEF About
  <2>4. CASE e.type = "checkout.session.completed"
    <3>1. u = PaymentUpdate(None, 0, e.obj.payment_intent, e)
      BY <2>2, <2>4 DEF MapSessionEvent
    <3> QED BY <1>1, <2>3, <3>1 DEF PaymentUpdate
  <2>5. CASE e.type = "checkout.session.expired"
    <3>1. u = PaymentUpdate("FAILED", 0, e.obj.payment_intent, e)
      BY <2>2, <2>5 DEF MapSessionEvent, FailedUpdate
    <3> QED BY <1>1, <2>3, <3>1 DEF PaymentUpdate
  <2> QED BY <1>3, <2>4, <2>5 DEF SessionEvents
<1>4. CASE e.type \in IntentEvents
  <2>1. ~IsRefundEvent(e) /\ e.type \notin SessionEvents \cup ReviewEvents
    BY <1>4, Kinds DEF IsRefundEvent
  <2>2. u = MapPaymentIntentEvent(e)
    BY <1>1, <1>4, <2>1 DEF HandleEvent, HandleCallback
  <2>3. e.obj.id = IntentId(c)
    BY <1>4, <2>1 DEF About
  <2>4. CASE e.type = "payment_intent.amount_capturable_updated"
    <3>1. \E a : u = PaymentUpdate("LOCKED", a, e.obj.id, e)
      BY <2>2, <2>4 DEF MapPaymentIntentEvent, LockedUpdate
    <3> QED BY <1>1, <2>3, <3>1 DEF PaymentUpdate
  <2>5. CASE e.type = "payment_intent.succeeded"
    <3>1. \E a : u = PaymentUpdate("PAYMENT_CAPTURED", a, e.obj.id, e)
      BY <2>2, <2>5 DEF MapPaymentIntentEvent, CapturedUpdate
    <3> QED BY <1>1, <2>3, <3>1 DEF PaymentUpdate
  <2>6. CASE e.type = "payment_intent.payment_failed"
    <3>1. u = PaymentUpdate("FAILED", 0, e.obj.id, e)
      BY <2>2, <2>6 DEF MapPaymentIntentEvent, FailedUpdate
    <3> QED BY <1>1, <2>3, <3>1 DEF PaymentUpdate
  <2>7. CASE e.type = "payment_intent.canceled"
    <3>1. \E said \in PaymentEvent : u = PaymentUpdate(said, 0, e.obj.id, e)
      BY <2>2, <2>7 DEF MapPaymentIntentEvent, CanceledUpdate, FailedUpdate, PaymentEvent
    <3> QED BY <1>1, <2>3, <3>1 DEF PaymentUpdate
  <2> QED BY <1>4, <2>4, <2>5, <2>6, <2>7 DEF IntentEvents
<1>5. CASE e.type \in ReviewEvents
  <2>1. ~IsRefundEvent(e) /\ e.type \notin SessionEvents \cup IntentEvents
    BY <1>5, Kinds DEF IsRefundEvent
  <2>2. u = MapReviewEvent(e)
    BY <1>1, <1>5, <2>1 DEF HandleEvent, HandleCallback
  <2>3. e.obj.payment_intent = IntentId(c)
    BY <1>5, <2>1 DEF About
  <2>4. \E said \in PaymentEvent :
          u = PaymentUpdate(said, 0, e.obj.payment_intent, e)
    BY <1>5, <2>2 DEF MapReviewEvent, ReviewEvents, PaymentEvent
  <2> QED BY <1>1, <2>3, <2>4 DEF PaymentUpdate
<1> QED BY <1>2, <1>3, <1>4, <1>5 DEF About

-----------------------------------------------------------------------------
(* The steps. *)

\* Stripe's steps add orders and events, and change no owner.
LEMMA StripeGrows ==
    ASSUME RInv, OrdersOK', DOMAIN order \subseteq DOMAIN order',
           \A c \in DOMAIN order : order'[c].owner = order[c].owner,
           events \subseteq events', EventsOK', UNCHANGED delivered,
           DOMAIN payment' = Payment,
           \A p \in Payment :
               /\ DOMAIN payment'[p] = DOMAIN payment[p]
               /\ payment'[p].id = payment[p].id
               /\ payment'[p].applied = payment[p].applied
               /\ \/ payment'[p].external_id = payment[p].external_id
                  \/ /\ payment'[p].external_id # None
                     /\ BoundTo(payment'[p].external_id, p, order')
    PROVE  RInv'
<1> SUFFICES ASSUME NEW p \in Payment PROVE PaymentOK(p)'
  BY DEF RInv
<1>1. PaymentOK(p)
  BY DEF RInv
<1>2. AppliedEventIds(payment'[p]) = AppliedEventIds(payment[p])
  BY DEF AppliedEventIds
<1>3. ASSUME payment'[p].external_id # None PROVE BoundTo(payment'[p].external_id, p, order')
  <2>1. CASE payment'[p].external_id = payment[p].external_id
    BY <1>1, <1>3, <2>1 DEF PaymentOK, BoundTo
  <2>2. CASE BoundTo(payment'[p].external_id, p, order')
    BY <2>2
  <2> QED BY <2>1, <2>2
<1>4. ASSUME NEW e \in AppliedEventIds(payment[p]) PROVE Owner(e.obj)' = p
  <2>1. e \in events /\ Owner(e.obj) = p
    BY <1>1 DEF PaymentOK
  <2>2. PICK c \in DOMAIN order : About(e, c, order)
    BY <2>1 DEF RInv, EventsOK
  <2>3. e.obj.id[2] = c
    BY <2>2 DEF About, SessionId, IntentId, ReviewId
  <2> QED BY <2>1, <2>2, <2>3 DEF Owner
<1> QED BY <1>1, <1>2, <1>3, <1>4 DEF PaymentOK

\* An event stays about its checkout.
LEMMA AboutLasts ==
    ASSUME NEW e, NEW c, About(e, c, order), order'[c].owner = order[c].owner
    PROVE  About(e, c, order')
BY DEF About

LEMMA NewEvents ==
    ASSUME RInv, DOMAIN order \subseteq DOMAIN order',
           \A c \in DOMAIN order : order'[c].owner = order[c].owner,
           \A e \in events' \ events : \E c \in DOMAIN order' : About(e, c, order')
    PROVE  EventsOK'
<1> SUFFICES ASSUME NEW e \in events' PROVE \E c \in DOMAIN order' : About(e, c, order')
  BY DEF EventsOK
<1>1. CASE e \in events
  <2>1. PICK c \in DOMAIN order : About(e, c, order)
    BY <1>1 DEF RInv, EventsOK
  <2> QED BY <2>1, AboutLasts
<1>2. CASE e \notin events
  BY <1>2
<1> QED BY <1>1, <1>2

LEMMA OrderFields ==
    ASSUME NEW o, DOMAIN o = DOMAIN NewOrder(None, "automatic")
    PROVE  DOMAIN o = {"owner", "capture_method", "status", "has_payment_intent",
                       "amount_capturable", "amount_received"}
BY DEF NewOrder

\* The payloads rendered of an order are about its checkout.
LEMMA SessionIsAbout ==
    ASSUME NEW orders, NEW c, NEW type \in SessionEvents
    PROVE  About(Event(type, SessionObject(c, orders[c])), c, orders)
BY DEF About, Event, SessionObject

LEMMA IntentIsAbout ==
    ASSUME NEW orders, NEW c, NEW type \in IntentEvents
    PROVE  About(Event(type, PaymentIntentObject(c, orders[c])), c, orders)
BY DEF About, Event, PaymentIntentObject

LEMMA CreateStep ==
    ASSUME RInv, NEW c \in Checkout, NEW owner \in Payment \cup {None},
           Create(c, owner), UNCHANGED events
    PROVE  /\ OrdersOK' /\ EventsOK'
           /\ DOMAIN order \subseteq DOMAIN order'
           /\ \A b \in DOMAIN order : order'[b].owner = order[b].owner
           /\ c \in DOMAIN order' /\ order'[c].owner = owner
<1>1. /\ c \notin DOMAIN order
      /\ DOMAIN order' = DOMAIN order \cup {c}
      /\ \A b \in DOMAIN order : order'[b] = order[b]
      /\ order'[c] = NewOrder(owner, "automatic")
  BY DEF Create, Exists
<1>2. OrdersOK'
  BY <1>1 DEF RInv, OrdersOK, NewOrder, CheckoutStatus
<1>3. EventsOK'
  BY <1>1, NewEvents
<1> QED BY <1>1, <1>2, <1>3 DEF NewOrder

\* Pay() and Decline() change an order's status and say so.
LEMMA StatusStep ==
    ASSUME RInv, NEW c \in DOMAIN order, UNCHANGED <<delivered, payment>>,
           DOMAIN order' = DOMAIN order,
           DOMAIN order'[c] = DOMAIN order[c],
           order'[c].owner = order[c].owner, order'[c].status \in CheckoutStatus,
           \A b \in DOMAIN order : b # c => order'[b] = order[b],
           NEW new, events' = events \cup new,
           \A e \in new : About(e, c, order')
    PROVE  RInv'
<1>1. OrdersOK'
  BY DEF RInv, OrdersOK
<1>2. \A b \in DOMAIN order : order'[b].owner = order[b].owner
  OBVIOUS
<1>3. EventsOK'
  BY <1>2, NewEvents
<1> QED BY <1>1, <1>2, <1>3, StripeGrows DEF RInv

LEMMA PayStep ==
    ASSUME RInv, NEW c \in Checkout, Pay(c)
    PROVE  RInv'
<1> DEFINE o == order'[c]
           done == Event("checkout.session.completed", SessionObject(c, o))
           paid == Event("payment_intent.succeeded", PaymentIntentObject(c, o))
<1>1. /\ c \in DOMAIN order
      /\ order' = [order EXCEPT ![c].status = "succeeded",
                                ![c].has_payment_intent = TRUE,
                                ![c].amount_received = 1]
      /\ events' = events \cup {done, paid}
      /\ UNCHANGED <<delivered, payment>>
  BY DEF Pay, StatusIs, Exists
<1>2. DOMAIN order[c] = {"owner", "capture_method", "status", "has_payment_intent",
                         "amount_capturable", "amount_received"}
  BY <1>1, OrderFields DEF RInv, OrdersOK
<1>3. /\ DOMAIN order' = DOMAIN order /\ DOMAIN o = DOMAIN order[c]
      /\ o.owner = order[c].owner /\ o.status = "succeeded"
      /\ \A b \in DOMAIN order : b # c => order'[b] = order[b]
  BY <1>1, <1>2
<1>4. About(done, c, order')
  BY SessionIsAbout DEF SessionEvents
<1>5. About(paid, c, order')
  BY IntentIsAbout DEF IntentEvents
<1>6. o.status \in CheckoutStatus
  BY <1>3 DEF CheckoutStatus
<1>7. \A e \in {done, paid} : About(e, c, order')
  BY <1>4, <1>5
<1>8. PICK new : new = {done, paid}
  OBVIOUS
<1>9. /\ c \in DOMAIN order /\ events' = events \cup new
      /\ UNCHANGED <<delivered, payment>>
      /\ \A e \in new : About(e, c, order')
  BY <1>1, <1>7, <1>8
<1> QED BY <1>3, <1>6, <1>9, StatusStep

LEMMA DeclineStep ==
    ASSUME RInv, NEW c \in Checkout, Decline(c)
    PROVE  RInv'
<1> DEFINE o == order'[c]
           failed == Event("payment_intent.payment_failed", PaymentIntentObject(c, o))
<1>1. /\ c \in DOMAIN order
      /\ order' = [order EXCEPT ![c].status = "declined",
                                ![c].has_payment_intent = TRUE]
      /\ events' = events \cup {failed}
      /\ UNCHANGED <<delivered, payment>>
  BY DEF Decline, StatusIs, Exists
<1>2. DOMAIN order[c] = {"owner", "capture_method", "status", "has_payment_intent",
                         "amount_capturable", "amount_received"}
  BY <1>1, OrderFields DEF RInv, OrdersOK
<1>3. /\ DOMAIN order' = DOMAIN order /\ DOMAIN o = DOMAIN order[c]
      /\ o.owner = order[c].owner /\ o.status = "declined"
      /\ \A b \in DOMAIN order : b # c => order'[b] = order[b]
  BY <1>1, <1>2
<1>4. \A e \in {failed} : About(e, c, order')
  BY IntentIsAbout DEF IntentEvents
<1>5. o.status \in CheckoutStatus
  BY <1>3 DEF CheckoutStatus
<1>6. PICK new : new = {failed}
  OBVIOUS
<1>7. /\ c \in DOMAIN order /\ events' = events \cup new
      /\ UNCHANGED <<delivered, payment>>
      /\ \A e \in new : About(e, c, order')
  BY <1>1, <1>4, <1>6
<1> QED BY <1>3, <1>5, <1>7, StatusStep

\* What follows a sale leaves the orders alone.
LEMMA AfterSaleStep ==
    ASSUME RInv, NEW c \in Checkout, NEW e, EmitAfterSale(c, e),
           c \in DOMAIN order => About(e, c, order), UNCHANGED <<order, delivered, payment>>
    PROVE  RInv'
<1>1. c \in DOMAIN order /\ events' = events \cup {e}
  BY DEF EmitAfterSale, StatusIs, Exists
<1>2. OrdersOK'
  BY DEF RInv, OrdersOK
<1>3. EventsOK'
  BY <1>1 DEF RInv, EventsOK, About
<1> QED BY <1>1, <1>2, <1>3, StripeGrows DEF RInv

LEMMA RefundIsAbout ==
    ASSUME NEW c, NEW metadata \in {None, order[c].owner}
    PROVE  About(Event("refund.updated", RefundObject(c, metadata)), c, order)
BY DEF About, Event, RefundObject, IsRefundEvent

LEMMA ReviewIsAbout ==
    ASSUME NEW c
    PROVE  About(Event("review.opened", ReviewObject(c, None)), c, order)
BY DEF About, Event, ReviewObject, ReviewEvents

\* A refund of p's bound intent is a refund of p's own checkout.
LEMMA BoundIntentIsOwn ==
    ASSUME RInv, NEW p \in Payment, NEW c \in Checkout,
           payment[p].external_id = IntentId(c)
    PROVE  c \in DOMAIN order /\ order[c].owner = p
<1>1. payment[p].external_id # None
  BY IdsDistinct
<1>2. PICK d \in DOMAIN order :
           payment[p].external_id \in {SessionId(d), IntentId(d)} /\ order[d].owner = p
  BY <1>1 DEF RInv, PaymentOK, BoundTo
<1>3. c = d
  BY <1>2, IdsDistinct
<1> QED BY <1>2, <1>3

\* A saved result binds its payment to a session of its own.
LEMMA SavePreparedStep ==
    ASSUME RInv, PreparingOK, NEW c \in Checkout, SavePrepared(c)
    PROVE  RInv'
<1>1. PICK p \in Payment : p = order[c].owner /\ c \in DOMAIN order
  BY DEF SavePrepared, PreparingOK
<1>2. /\ UNCHANGED <<order, events, delivered>>
      /\ payment' = [payment EXCEPT ![p].external_id = SessionId(c)]
  BY <1>1 DEF SavePrepared
<1>3. OrdersOK' /\ EventsOK'
  BY <1>2 DEF RInv, OrdersOK, EventsOK, About
<1>4. BoundTo(SessionId(c), p, order') /\ SessionId(c) # None
  BY <1>1, <1>2, IdsDistinct DEF BoundTo
<1>5. DOMAIN payment' = Payment
  BY <1>2 DEF RInv
<1>6. ASSUME NEW q \in Payment
      PROVE  /\ DOMAIN payment'[q] = DOMAIN payment[q]
             /\ payment'[q].id = payment[q].id
             /\ payment'[q].applied = payment[q].applied
             /\ \/ payment'[q].external_id = payment[q].external_id
                \/ q = p /\ payment'[q].external_id = SessionId(c)
  <2>1. DOMAIN payment[q] = {"id", "external_id", "applied"}
    BY DEF RInv, PaymentOK, NewPayment
  <2> QED BY <1>2, <2>1 DEF RInv
<1> QED BY <1>2, <1>3, <1>4, <1>5, <1>6, StripeGrows

LEMMA CallbackStep ==
    ASSUME RInv, NEW p \in Payment, NEW e \in events, Callback(p, e)
    PROVE  RInv'
<1> DEFINE local == payment[p]
           u == HandleEvent(local, e)
           q == ApplyPaymentUpdate(local, u)
<1>1. /\ payment' = [payment EXCEPT ![p] = q]
      /\ delivered' \in {delivered, delivered \cup {e}}
      /\ UNCHANGED <<order, events>>
  BY DEF Callback, RInv
<1>2. PICK c \in DOMAIN order : About(e, c, order)
  BY DEF RInv, EventsOK
<1>3. PaymentOK(p)
  BY DEF RInv
<1>4. /\ DOMAIN q = DOMAIN local /\ q.id = local.id
      /\ q.external_id # None => BoundTo(q.external_id, p, order)
      /\ AppliedEventIds(q) \subseteq events
      /\ \A f \in AppliedEventIds(q) : Owner(f.obj) = p
  <2>1. CASE q = local
    BY <1>3, <2>1 DEF PaymentOK
  <2>2. CASE q # local
    <3>1. /\ u # None
          /\ q = [local EXCEPT !.external_id = IF u.external_id = None
                                         THEN local.external_id ELSE u.external_id,
                         !.applied = local.applied \cup {u}]
      BY <2>2 DEF ApplyPaymentUpdate
    <3>2. DOMAIN local = {"id", "external_id", "applied"}
      BY <1>3 DEF PaymentOK, NewPayment
    <3>3. /\ DOMAIN q = DOMAIN local /\ q.id = local.id
          /\ q.applied = local.applied \cup {u}
          /\ q.external_id = IF u.external_id = None
                             THEN local.external_id ELSE u.external_id
      BY <3>1, <3>2
    <3>4. /\ IsCorrelated(local, e.obj) /\ u.provider_event_id = e
          /\ u.external_id \in {None, IntentId(c)}
      BY <1>2, <3>1, UpdateBinds
    <3>5. order[c].owner = p /\ Owner(e.obj) = p
      BY <1>2, <3>4, AcceptedIsOwn, AboutIsOwner
    <3>6. q.external_id # None => BoundTo(q.external_id, p, order)
      BY <1>3, <3>3, <3>4, <3>5 DEF PaymentOK, BoundTo
    <3>7. AppliedEventIds(q) \subseteq AppliedEventIds(local) \cup {e}
      BY <3>3, <3>4 DEF AppliedEventIds
    <3> QED BY <1>3, <3>3, <3>5, <3>6, <3>7 DEF PaymentOK
  <2> QED BY <2>1, <2>2
<1>5. DOMAIN payment' = Payment /\ payment'[p] = q
      /\ \A r \in Payment : r # p => payment'[r] = payment[r]
  BY <1>1 DEF RInv
<1>6. PaymentOK(p)'
  BY <1>1, <1>3, <1>4, <1>5 DEF PaymentOK, BoundTo, Owner
<1>7. ASSUME NEW r \in Payment, r # p PROVE PaymentOK(r)'
  BY <1>1, <1>5, <1>7 DEF RInv, PaymentOK, BoundTo, Owner
<1>8. OrdersOK' /\ EventsOK' /\ (delivered \subseteq events)'
  BY <1>1 DEF RInv, OrdersOK, EventsOK, About
<1> QED BY <1>5, <1>6, <1>7, <1>8 DEF RInv

LEMMA RInvInit ==
    ASSUME Init
    PROVE  RInv
BY DEF Init, RInv, OrdersOK, EventsOK, PaymentOK, NewPayment, AppliedEventIds

LEMMA RInvNext ==
    ASSUME RInv, PreparingOK, [Next]_vars
    PROVE  RInv'
<1>1. ASSUME NEW c \in Checkout, ForeignCheckout(c) PROVE RInv'
  <2>1. Create(c, None) /\ UNCHANGED <<events, delivered, payment>>
    BY <1>1 DEF ForeignCheckout
  <2>2. /\ OrdersOK' /\ EventsOK' /\ DOMAIN order \subseteq DOMAIN order'
        /\ \A b \in DOMAIN order : order'[b].owner = order[b].owner
    BY <2>1, CreateStep
  <2> QED BY <2>1, <2>2, StripeGrows DEF RInv
<1>2. ASSUME NEW c \in Checkout, Pay(c) PROVE RInv'
  BY <1>2, PayStep
<1>3. ASSUME NEW c \in Checkout, Decline(c) PROVE RInv'
  BY <1>3, DeclineStep
<1>4. ASSUME NEW c \in Checkout, DashboardRefund(c) PROVE RInv'
  <2>1. About(Event("refund.updated", RefundObject(c, None)), c, order)
    BY RefundIsAbout
  <2> QED BY <1>4, <2>1, AfterSaleStep DEF DashboardRefund, EmitRefund
<1>5. ASSUME NEW c \in Checkout, Review(c) PROVE RInv'
  BY <1>5, ReviewIsAbout, AfterSaleStep DEF Review
<1>6. ASSUME NEW c \in Checkout, NEW p \in Payment, Prepare(p, c) PROVE RInv'
  <2>1. Create(c, p) /\ UNCHANGED <<events, delivered, payment>>
    BY <1>6 DEF Prepare
  <2>2. /\ OrdersOK' /\ EventsOK' /\ DOMAIN order \subseteq DOMAIN order'
        /\ \A b \in DOMAIN order : order'[b].owner = order[b].owner
    BY <2>1, CreateStep
  <2> QED BY <2>1, <2>2, StripeGrows DEF RInv
<1>7. ASSUME NEW c \in Checkout, NEW p \in Payment, StartRefund(p, c) PROVE RInv'
  <2>1. order[c].owner = p
    BY <1>7, BoundIntentIsOwn DEF StartRefund
  <2>2. About(Event("refund.updated", RefundObject(c, p)), c, order)
    BY <2>1, RefundIsAbout
  <2> QED BY <1>7, <2>2, AfterSaleStep DEF StartRefund, EmitRefund
<1>8. ASSUME NEW e \in events, Unresolved(e) PROVE RInv'
  <2>1. delivered' = delivered \cup {e} /\ UNCHANGED <<order, events, payment>>
    BY <1>8 DEF Unresolved
  <2> QED BY <2>1 DEF RInv, OrdersOK, EventsOK, About, PaymentOK, BoundTo, Owner
<1>9. ASSUME NEW e \in events, NEW p \in Payment, Callback(p, e) PROVE RInv'
  BY <1>9, CallbackStep
<1>10. CASE UNCHANGED vars
  BY <1>10 DEF vars, RInv, OrdersOK, EventsOK, About, PaymentOK, BoundTo, Owner
<1>11. ASSUME NEW c \in Checkout, SavePrepared(c) PROVE RInv'
  BY <1>11, SavePreparedStep
<1>12. CASE Next
  BY <1>1, <1>2, <1>3, <1>4, <1>5, <1>6, <1>7, <1>8, <1>9, <1>11, <1>12 DEF Next
<1> QED BY <1>10, <1>12

LEMMA PreparingNext ==
    ASSUME RInv, PreparingOK, [Next]_vars
    PROVE  PreparingOK'
<1>1. ASSUME NEW c \in Checkout, NEW owner, Create(c, owner),
             preparing' \subseteq preparing \cup {c},
             owner \in Payment \/ preparing' = preparing
      PROVE  PreparingOK'
  <2>1. /\ DOMAIN order' = DOMAIN order \cup {c} /\ c \notin DOMAIN order
        /\ \A b \in DOMAIN order : order'[b] = order[b]
        /\ order'[c].owner = owner
    BY <1>1 DEF Create, Exists, NewOrder
  <2> QED BY <1>1, <2>1 DEF PreparingOK
<1>2. ASSUME NEW c \in Checkout, Pay(c) \/ Decline(c) PROVE PreparingOK'
  <2>1. c \in DOMAIN order /\ preparing' = preparing
    BY <1>2 DEF Pay, Decline, StatusIs, Exists
  <2>2. /\ DOMAIN order' = DOMAIN order
        /\ \A b \in DOMAIN order : order'[b].owner = order[b].owner
    BY <1>2, <2>1, OrderFields DEF RInv, OrdersOK, Pay, Decline
  <2> QED BY <2>1, <2>2 DEF PreparingOK
<1>3. ASSUME UNCHANGED order, preparing' \subseteq preparing PROVE PreparingOK'
  BY <1>3 DEF PreparingOK
<1>4. ASSUME NEW c \in Checkout, NEW p \in Payment, Prepare(p, c) PROVE PreparingOK'
  BY <1>1, <1>4 DEF Prepare
<1>5. ASSUME NEW c \in Checkout, ForeignCheckout(c) PROVE PreparingOK'
  <2>1. Create(c, None) /\ preparing' = preparing
    BY <1>5 DEF ForeignCheckout
  <2> QED BY <1>1, <2>1
<1> QED BY <1>2, <1>3, <1>4, <1>5
        DEF Next, DashboardRefund, Review, SavePrepared, StartRefund, Unresolved,
            Callback, vars

LEMMA RInvAlways == Spec => [](RInv /\ PreparingOK)
<1>1. Init => RInv /\ PreparingOK
  BY RInvInit DEF Init, PreparingOK
<1>2. RInv /\ PreparingOK /\ [Next]_vars => (RInv /\ PreparingOK)'
  BY RInvNext, PreparingNext
<1> QED BY <1>1, <1>2, PTL DEF Spec

-----------------------------------------------------------------------------
(* Nothing is lost on the way: what beside RInv is inductive. *)

\* The handles read off an event, and the evidence the processor accepts, name
\* the same payments.
LEMMA HandlesAreEvidence ==
    ASSUME RInv, NEW e \in events, NEW p \in Payment
    PROVE  p \in Resolve(e) <=>
               ~Rejects(payment[p], e.obj) /\ IsCorrelated(payment[p], e.obj)
<1> DEFINE found == ExtractCallbackCorrelation(e.obj)
           id == payment[p].external_id
<1>1. PICK c \in DOMAIN order : About(e, c, order)
  BY DEF RInv, EventsOK
<1>2. /\ payment[p].id = p /\ p # None
      /\ id # None => BoundTo(id, p, order)
  BY PaymentAssumption DEF RInv, PaymentOK
<1>3. p \in Resolve(e) <=> \/ p = found.payment_id
                           \/ found.external_id # None /\ id = found.external_id
  BY DEF Resolve
<1>4. found.payment_id = IF e.obj.metadata # None
                         THEN e.obj.metadata ELSE e.obj.client_reference_id
  BY DEF ExtractCallbackCorrelation
<1>5. found.external_id = IF e.obj.payment_intent # None THEN e.obj.payment_intent
                          ELSE IF IsIntentId(e.obj.id) THEN e.obj.id ELSE None
  BY DEF ExtractCallbackCorrelation
<1>6. ASSUME p = found.payment_id PROVE p \in Evidence(e.obj)
  BY <1>2, <1>4, <1>6 DEF Evidence
<1>7. ASSUME found.external_id # None, id = found.external_id
      PROVE  id # None /\ id \in {e.obj.id, e.obj.payment_intent}
  BY <1>5, <1>7
<1>8. ASSUME p \in Resolve(e)
      PROVE  ~Rejects(payment[p], e.obj) /\ IsCorrelated(payment[p], e.obj)
  <2>1. IsCorrelated(payment[p], e.obj)
    BY <1>2, <1>3, <1>6, <1>7, <1>8 DEF IsCorrelated
  <2>2. order[c].owner = p
    BY <1>1, <2>1, AcceptedIsOwn
  <2> QED BY <1>1, <2>1, <2>2, OwnerNotRejected
<1>9. ASSUME IsCorrelated(payment[p], e.obj) PROVE p \in Resolve(e)
  <2>1. order[c].owner = p
    BY <1>1, <1>9, AcceptedIsOwn
  <2>2. CASE p \in Evidence(e.obj)
    BY <1>1, <1>3, <1>4, <2>1, <2>2 DEF About, Evidence
  <2>3. CASE id # None /\ id = e.obj.payment_intent
    BY <1>3, <1>5, <2>3
  <2>4. CASE id # None /\ id = e.obj.id
    <3>1. PICK d : id \in {SessionId(d), IntentId(d)}
      BY <1>2, <2>4 DEF BoundTo
    \* Only sessions and intents are bound, and theirs carry the payment's id.
    <3>2. e.obj.metadata = order[c].owner
      BY <1>1, <2>4, <3>1, IdsDistinct DEF About
    <3> QED BY <1>2, <1>3, <1>4, <2>1, <3>2
  <2> QED BY <1>2, <1>9, <2>2, <2>3, <2>4 DEF IsCorrelated
<1> QED BY <1>8, <1>9

\* Payloads and events have the shape of one, so that none of them is None.
EventsTyped == events \subseteq WebhookEvent(Payment)
OrderTyped(o) ==
    /\ o.capture_method \in {"automatic", "manual"}
    /\ o.amount_capturable \in Nat /\ o.amount_received \in Nat

\* A sale is announced by an event about its intent.
Announced(c, orders, evs) ==
    orders[c].status = "succeeded" =>
        \E e \in evs : e.type = "payment_intent.succeeded" /\ e.obj.id = IntentId(c)

\* A delivered event was applied to the payment it names.
Heeded(e) == \A p \in Payment : p \in Evidence(e.obj) => AppliedTo(p, e)

SaleInv ==
    /\ EventsTyped
    /\ \A c \in DOMAIN order : OrderTyped(order[c]) /\ Announced(c, order, events)
    /\ \A e \in delivered : Heeded(e)

\* The payloads of an order have the shape of one.
LEMMA PayloadsTyped ==
    ASSUME NEW c \in Checkout, NEW o, OrderTyped(o), o.status \in CheckoutStatus,
           o.owner \in Payment \cup {None}
    PROVE  /\ \A type \in SessionEvents :
                Event(type, SessionObject(c, o)) \in WebhookEvent(Payment)
           /\ \A type \in IntentEvents :
                Event(type, PaymentIntentObject(c, o)) \in WebhookEvent(Payment)
<1>1. SessionId(c) \in ObjectId /\ IntentId(c) \in ObjectId
  BY CheckoutAssumption DEF SessionId, IntentId, ObjectId
<1>2. SessionStatus(o) \in {"open", "expired", "complete"}
  BY DEF SessionStatus
<1>3. PaymentIntentStatus(o) \in CheckoutStatus \cup {"requires_payment_method"}
  BY DEF PaymentIntentStatus
<1>4. SessionObject(c, o) \in PayloadObject(Payment)
  BY <1>1, <1>2 DEF OrderTyped, SessionObject, PayloadObject, CheckoutStatus
<1>5. PaymentIntentObject(c, o) \in PayloadObject(Payment)
  BY <1>1, <1>3 DEF OrderTyped, PaymentIntentObject, PayloadObject
<1> QED BY <1>4, <1>5 DEF Event, WebhookEvent

LEMMA AfterSaleTyped ==
    ASSUME NEW c \in Checkout, NEW metadata \in Payment \cup {None}
    PROVE  /\ Event("refund.updated", RefundObject(c, metadata)) \in WebhookEvent(Payment)
           /\ Event("review.opened", ReviewObject(c, None)) \in WebhookEvent(Payment)
<1>1. <<"re", c>> \in ObjectId /\ ReviewId(c) \in ObjectId /\ IntentId(c) \in ObjectId
  BY CheckoutAssumption DEF ReviewId, IntentId, ObjectId
<1>2. RefundObject(c, metadata) \in PayloadObject(Payment)
  BY <1>1 DEF RefundObject, PayloadObject, CheckoutStatus
<1>3. ReviewObject(c, None) \in PayloadObject(Payment)
  BY <1>1 DEF ReviewObject, PayloadObject
<1> QED BY <1>2, <1>3 DEF Event, WebhookEvent, ReviewEvents

\* A correlated event maps to an update, and never to nothing.
LEMMA CorrelatedMaps ==
    ASSUME NEW local, NEW e \in WebhookEvent(Payment), IsCorrelated(local, e.obj)
    PROVE  HandleEvent(local, e) # None
<1>1. /\ e.obj.id \in ObjectId /\ e.obj.payment_intent \in ObjectId \cup {None}
      /\ e.obj.amount_capturable \in Nat /\ e.obj.amount_received \in Nat
      /\ e.type \in SessionEvents \cup IntentEvents \cup ReviewEvents \cup {"refund.updated"}
  BY DEF WebhookEvent, PayloadObject
<1>2. /\ FromMinor(e.obj.amount_capturable, Currency) \in Nat
      /\ FromMinor(e.obj.amount_received, Currency) \in Nat
  BY <1>1, FromMinorByCode, Tables, CurrencyAssumption
<1>3. ASSUME NEW said \in PaymentEvent \cup {"REFUND_CONFIRMED", None}, NEW amount \in Nat,
             NEW id \in ObjectId \cup {None}
      PROVE  PaymentUpdate(said, amount, id, e) # None
  <2>1. PaymentUpdate(said, amount, id, e) \in MappedUpdate(Payment)
    BY DEF PaymentUpdate, MappedUpdate
  <2> QED BY <2>1, IgnoredAssumption
<1>4. CASE e.type = "refund.updated"
  <2>1. HandleEvent(local, e) = PaymentUpdate("REFUND_CONFIRMED", 0, e.obj.payment_intent, e)
    BY <1>4 DEF HandleEvent, IsRefundEvent
  <2> QED BY <1>1, <1>3, <2>1
<1>5. CASE e.type \in SessionEvents
  <2>1. HandleEvent(local, e) = MapSessionEvent(e)
    BY <1>5, Kinds DEF HandleEvent, HandleCallback, IsRefundEvent
  <2>2. \E said \in PaymentEvent \cup {None} :
          MapSessionEvent(e) = PaymentUpdate(said, 0, e.obj.payment_intent, e)
    BY <1>5 DEF MapSessionEvent, FailedUpdate, SessionEvents, PaymentEvent
  <2> QED BY <1>1, <1>3, <2>1, <2>2
<1>6. CASE e.type \in IntentEvents
  <2>1. HandleEvent(local, e) = MapPaymentIntentEvent(e)
    BY <1>6, Kinds DEF HandleEvent, HandleCallback, IsRefundEvent
  <2>2. CASE e.type = "payment_intent.amount_capturable_updated"
    <3>1. MapPaymentIntentEvent(e)
            = PaymentUpdate("LOCKED", FromMinor(e.obj.amount_capturable, Currency),
                            e.obj.id, e)
      BY <2>2 DEF MapPaymentIntentEvent, LockedUpdate
    <3> QED BY <1>1, <1>2, <1>3, <2>1, <3>1 DEF PaymentEvent
  <2>3. CASE e.type = "payment_intent.succeeded"
    <3>1. MapPaymentIntentEvent(e)
            = PaymentUpdate("PAYMENT_CAPTURED", FromMinor(e.obj.amount_received, Currency),
                            e.obj.id, e)
      BY <2>3 DEF MapPaymentIntentEvent, CapturedUpdate
    <3> QED BY <1>1, <1>2, <1>3, <2>1, <3>1 DEF PaymentEvent
  <2>4. CASE e.type \in {"payment_intent.payment_failed", "payment_intent.canceled"}
    <3>1. \E said \in PaymentEvent :
            MapPaymentIntentEvent(e) = PaymentUpdate(said, 0, e.obj.id, e)
      BY <2>4 DEF MapPaymentIntentEvent, CanceledUpdate, FailedUpdate, PaymentEvent
    <3> QED BY <1>1, <1>3, <2>1, <3>1
  <2> QED BY <1>6, <2>2, <2>3, <2>4 DEF IntentEvents
<1>7. CASE e.type \in ReviewEvents
  <2>1. HandleEvent(local, e) = MapReviewEvent(e)
    BY <1>7, Kinds DEF HandleEvent, HandleCallback, IsRefundEvent
  <2>2. \E said \in PaymentEvent :
          MapReviewEvent(e) = PaymentUpdate(said, 0, e.obj.payment_intent, e)
    BY <1>7 DEF MapReviewEvent, ReviewEvents, PaymentEvent
  <2> QED BY <1>1, <1>3, <2>1, <2>2
<1> QED BY <1>1, <1>4, <1>5, <1>6, <1>7

\* A processor that knows an event for its payment's own has it applied.
LEMMA CallbackApplies ==
    ASSUME RInv, EventsTyped, NEW p \in Payment, NEW e \in events, Callback(p, e),
           IsCorrelated(payment[p], e.obj)
    PROVE  AppliedTo(p, e)'
<1>1. PICK u : u = HandleEvent(payment[p], e)
  OBVIOUS
<1>2. payment' = [payment EXCEPT ![p] = ApplyPaymentUpdate(payment[p], u)]
  BY <1>1 DEF Callback
<1>3. payment'[p] = ApplyPaymentUpdate(payment[p], u)
  BY <1>2 DEF RInv
<1>4. PICK c \in DOMAIN order : About(e, c, order)
  BY DEF RInv, EventsOK
<1>5. u # None /\ u.provider_event_id = e
  BY <1>1, <1>4, CorrelatedMaps, UpdateBinds DEF EventsTyped
<1>6. e # None
  BY IgnoredAssumption DEF EventsTyped
<1>7. CASE e \in AppliedEventIds(payment[p])
  BY <1>3, <1>5, <1>7 DEF ApplyPaymentUpdate, AppliedTo
<1>8. CASE e \notin AppliedEventIds(payment[p])
  <2>1. "applied" \in DOMAIN payment[p]
    BY DEF RInv, PaymentOK, NewPayment
  <2>2. u \in payment'[p].applied
    BY <1>3, <1>5, <1>8, <2>1 DEF ApplyPaymentUpdate
  <2> QED BY <1>5, <1>6, <2>2 DEF AppliedTo, AppliedEventIds
<1> QED BY <1>7, <1>8

\* What was applied to a payment stays applied.
LEMMA AppliedLasts ==
    ASSUME RInv, [Next]_vars, NEW p \in Payment, NEW e, AppliedTo(p, e)
    PROVE  AppliedTo(p, e)'
<1> SUFFICES payment[p].applied \subseteq payment'[p].applied
  BY DEF AppliedTo, AppliedEventIds
<1>1. /\ DOMAIN payment = Payment
      /\ \A q \in Payment : DOMAIN payment[q] = {"id", "external_id", "applied"}
  BY DEF RInv, PaymentOK, NewPayment
<1>2. ASSUME NEW c, SavePrepared(c)
      PROVE  payment[p].applied \subseteq payment'[p].applied
  BY <1>1, <1>2 DEF SavePrepared
<1>3. ASSUME NEW q \in Payment, NEW f, Callback(q, f)
      PROVE  payment[p].applied \subseteq payment'[p].applied
  <2>1. PICK u : payment' = [payment EXCEPT ![q] = ApplyPaymentUpdate(payment[q], u)]
    BY <1>3 DEF Callback
  <2>2. payment[q].applied \subseteq ApplyPaymentUpdate(payment[q], u).applied
    BY <1>1 DEF ApplyPaymentUpdate
  <2> QED BY <1>1, <2>1, <2>2
<1>4. CASE UNCHANGED payment
  BY <1>4
<1> QED BY <1>2, <1>3, <1>4
        DEF Next, ForeignCheckout, Pay, Decline, DashboardRefund, Review, Prepare,
            StartRefund, Unresolved, vars

\* A step that makes an event delivered applies it to whoever it concerns.
LEMMA DeliveryApplies ==
    ASSUME RInv, EventsTyped, [Next]_vars, NEW e, e \notin delivered, e \in delivered',
           NEW p \in Payment, IsCorrelated(payment[p], e.obj)
    PROVE  AppliedTo(p, e)'
<1>1. \/ e \in events /\ Unresolved(e)
      \/ \E q \in Payment : e \in events /\ q \in Resolve(e) /\ Callback(q, e)
  BY DEF Next, ForeignCheckout, Pay, Decline, DashboardRefund, Review, Prepare,
         SavePrepared, StartRefund, Unresolved, Callback, vars
<1>2. e \in events
  BY <1>1
<1>3. PICK c \in DOMAIN order : About(e, c, order)
  BY <1>2 DEF RInv, EventsOK
<1>4. order[c].owner = p
  BY <1>3, AcceptedIsOwn
<1>5. p \in Resolve(e)
  BY <1>2, <1>3, <1>4, HandlesAreEvidence, OwnerNotRejected
<1>6. PICK q \in Payment : q \in Resolve(e) /\ Callback(q, e)
  BY <1>1, <1>5 DEF Unresolved
<1>7. order[c].owner = q
  BY <1>2, <1>3, <1>6, HandlesAreEvidence, AcceptedIsOwn
<1> QED BY <1>2, <1>4, <1>6, <1>7, CallbackApplies

LEMMA HeededStep ==
    ASSUME RInv, SaleInv, [Next]_vars
    PROVE  (\A e \in delivered : Heeded(e))'
<1> SUFFICES ASSUME NEW e \in delivered', NEW p \in Payment, p \in Evidence(e.obj)
             PROVE  AppliedTo(p, e)'
  BY DEF Heeded
<1>1. IsCorrelated(payment[p], e.obj)
  BY DEF IsCorrelated, RInv, PaymentOK
<1>2. CASE e \in delivered
  BY <1>2, AppliedLasts DEF SaleInv, Heeded
<1>3. CASE e \notin delivered
  BY <1>1, <1>3, DeliveryApplies DEF SaleInv
<1> QED BY <1>2, <1>3

\* The orders and the events alone.
OrdersTold ==
    /\ EventsTyped
    /\ \A c \in DOMAIN order : OrderTyped(order[c]) /\ Announced(c, order, events)

LEMMA CreateTold ==
    ASSUME RInv, OrdersTold, NEW c \in Checkout, NEW owner, Create(c, owner), UNCHANGED events
    PROVE  OrdersTold'
<1>1. /\ DOMAIN order' = DOMAIN order \cup {c}
      /\ \A b \in DOMAIN order : b # c => order'[b] = order[b]
      /\ order'[c] = NewOrder(owner, "automatic")
  BY DEF Create, Exists
<1>2. OrderTyped(order'[c]) /\ Announced(c, order', events')
  BY <1>1 DEF OrderTyped, Announced, NewOrder
<1> QED BY <1>1, <1>2 DEF OrdersTold, EventsTyped, Announced

\* An order changes, and its events are as typed as it is.
LEMMA ChangeTold ==
    ASSUME RInv, OrdersTold, NEW c \in DOMAIN order, DOMAIN order' = DOMAIN order,
           \A b \in DOMAIN order : b # c => order'[b] = order[b],
           OrderTyped(order'[c]),
           NEW new, events' = events \cup new, new \subseteq WebhookEvent(Payment),
           Announced(c, order', new)
    PROVE  OrdersTold'
<1>1. Announced(c, order', events')
  BY DEF Announced
<1>2. ASSUME NEW b \in DOMAIN order, b # c PROVE Announced(b, order', events')
  BY <1>2 DEF OrdersTold, Announced
<1> QED BY <1>1, <1>2 DEF OrdersTold, EventsTyped

LEMMA PayTold ==
    ASSUME RInv, OrdersTold, NEW c \in Checkout, Pay(c)
    PROVE  OrdersTold'
<1>1. PICK o : o = order'[c]
  OBVIOUS
<1>2. PICK new : new = {Event("checkout.session.completed", SessionObject(c, o)),
                        Event("payment_intent.succeeded", PaymentIntentObject(c, o))}
  OBVIOUS
<1>3. /\ c \in DOMAIN order /\ events' = events \cup new
      /\ order' = [order EXCEPT ![c].status = "succeeded",
                                ![c].has_payment_intent = TRUE,
                                ![c].amount_received = 1]
  BY <1>1, <1>2 DEF Pay, StatusIs, Exists
<1>4. DOMAIN order[c] = {"owner", "capture_method", "status", "has_payment_intent",
                         "amount_capturable", "amount_received"}
  BY <1>3, OrderFields DEF RInv, OrdersOK
<1>5. /\ o.status = "succeeded" /\ o.owner = order[c].owner
      /\ o.amount_received = 1 /\ o.amount_capturable = order[c].amount_capturable
      /\ o.capture_method = order[c].capture_method
  BY <1>1, <1>3, <1>4
<1>6. /\ OrderTyped(o) /\ o.status \in CheckoutStatus
      /\ o.owner \in Payment \cup {None}
  BY <1>3, <1>5 DEF OrdersTold, OrderTyped, RInv, OrdersOK, CheckoutStatus
<1>7. new \subseteq WebhookEvent(Payment)
  BY <1>2, <1>6, PayloadsTyped DEF SessionEvents, IntentEvents
<1>8. Announced(c, order', new)
  BY <1>2 DEF Announced, Event, PaymentIntentObject
<1> QED BY <1>1, <1>3, <1>6, <1>7, <1>8, ChangeTold

LEMMA DeclineTold ==
    ASSUME RInv, OrdersTold, NEW c \in Checkout, Decline(c)
    PROVE  OrdersTold'
<1>1. PICK o : o = order'[c]
  OBVIOUS
<1>2. PICK new : new = {Event("payment_intent.payment_failed", PaymentIntentObject(c, o))}
  OBVIOUS
<1>3. /\ c \in DOMAIN order /\ events' = events \cup new
      /\ order' = [order EXCEPT ![c].status = "declined",
                                ![c].has_payment_intent = TRUE]
  BY <1>1, <1>2 DEF Decline, StatusIs, Exists
<1>4. DOMAIN order[c] = {"owner", "capture_method", "status", "has_payment_intent",
                         "amount_capturable", "amount_received"}
  BY <1>3, OrderFields DEF RInv, OrdersOK
<1>5. /\ o.status = "declined" /\ o.owner = order[c].owner
      /\ o.amount_received = order[c].amount_received
      /\ o.amount_capturable = order[c].amount_capturable
      /\ o.capture_method = order[c].capture_method
  BY <1>1, <1>3, <1>4
<1>6. /\ OrderTyped(o) /\ o.status \in CheckoutStatus
      /\ o.owner \in Payment \cup {None}
  BY <1>3, <1>5 DEF OrdersTold, OrderTyped, RInv, OrdersOK, CheckoutStatus
<1>7. new \subseteq WebhookEvent(Payment)
  BY <1>2, <1>6, PayloadsTyped DEF IntentEvents
<1>8. Announced(c, order', new)
  BY <1>1, <1>5 DEF Announced
<1> QED BY <1>1, <1>3, <1>6, <1>7, <1>8, ChangeTold

LEMMA AfterSaleTold ==
    ASSUME OrdersTold, NEW c, NEW e \in WebhookEvent(Payment), EmitAfterSale(c, e),
           UNCHANGED order
    PROVE  OrdersTold'
BY DEF EmitAfterSale, OrdersTold, EventsTyped, Announced

LEMMA OrdersToldNext ==
    ASSUME RInv, OrdersTold, [Next]_vars
    PROVE  OrdersTold'
<1>1. ASSUME NEW c \in Checkout, ForeignCheckout(c) PROVE OrdersTold'
  BY <1>1, CreateTold DEF ForeignCheckout
<1>2. ASSUME NEW c \in Checkout, Pay(c) PROVE OrdersTold'
  BY <1>2, PayTold
<1>3. ASSUME NEW c \in Checkout, Decline(c) PROVE OrdersTold'
  BY <1>3, DeclineTold
<1>4. ASSUME NEW c \in Checkout, DashboardRefund(c) PROVE OrdersTold'
  BY <1>4, AfterSaleTyped, AfterSaleTold DEF DashboardRefund, EmitRefund
<1>5. ASSUME NEW c \in Checkout, Review(c) PROVE OrdersTold'
  BY <1>5, AfterSaleTyped, AfterSaleTold DEF Review
<1>6. ASSUME NEW c \in Checkout, NEW p \in Payment, Prepare(p, c) PROVE OrdersTold'
  BY <1>6, CreateTold DEF Prepare
<1>7. ASSUME NEW c \in Checkout, NEW p \in Payment, StartRefund(p, c) PROVE OrdersTold'
  BY <1>7, AfterSaleTyped, AfterSaleTold DEF StartRefund, EmitRefund
<1>8. ASSUME UNCHANGED <<order, events>> PROVE OrdersTold'
  BY <1>8 DEF OrdersTold, EventsTyped, Announced
<1> QED BY <1>1, <1>2, <1>3, <1>4, <1>5, <1>6, <1>7, <1>8
        DEF Next, SavePrepared, Unresolved, Callback, vars

LEMMA SaleInvAlways == Spec => []SaleInv
<1>1. Init => SaleInv
  BY DEF Init, SaleInv, EventsTyped
<1>2. RInv /\ SaleInv /\ [Next]_vars => SaleInv'
  BY HeededStep, OrdersToldNext DEF SaleInv, OrdersTold
<1> QED BY <1>1, <1>2, RInvAlways, PTL DEF Spec

-----------------------------------------------------------------------------
(* The theorems. *)

\* Events have the shape of one, and payments are bound to sessions and intents
\* that exist.
THEOREM RoutingTypeCorrect == Spec => []TypeOK
<1>1. RInv /\ PreparingOK /\ SaleInv => TypeOK
  <2> SUFFICES ASSUME RInv, PreparingOK, SaleInv, NEW p \in Payment
               PROVE  /\ payment[p].id = p
                      /\ LET id == payment[p].external_id IN
                           id # None => (IsSessionId(id) \/ IsIntentId(id))
                                        /\ id[2] \in Checkout
                      /\ AppliedEventIds(payment[p]) \subseteq events
    BY PaymentAssumption
       DEF TypeOK, RInv, OrdersOK, PreparingOK, Exists, SaleInv, EventsTyped
  <2> DEFINE id == payment[p].external_id
  <2>1. PaymentOK(p)
    BY DEF RInv
  <2>2. ASSUME id # None
        PROVE  (IsSessionId(id) \/ IsIntentId(id)) /\ id[2] \in Checkout
    <3>1. PICK c \in DOMAIN order : id \in {SessionId(c), IntentId(c)}
      BY <2>1, <2>2 DEF PaymentOK, BoundTo
    <3>2. c \in Checkout
      BY DEF RInv, OrdersOK
    <3> QED BY <2>2, <3>1, <3>2 DEF IsSessionId, IsIntentId, SessionId, IntentId
  <2> QED BY <2>1, <2>2 DEF PaymentOK
<1> QED BY <1>1, RInvAlways, SaleInvAlways, PTL

\* However events are routed, no payment is ever told of another's money.
THEOREM OnlyEverOwnEvents == Spec => []OnlyOwnEvents
<1>1. RInv => OnlyOwnEvents
  <2> SUFFICES ASSUME RInv, NEW p \in Payment
               PROVE  /\ \A e \in AppliedEventIds(payment[p]) : Owner(e.obj) = p
                      /\ payment[p].external_id # None =>
                           Owner([id |-> payment[p].external_id]) = p
    BY DEF OnlyOwnEvents
  <2>1. PaymentOK(p)
    BY DEF RInv
  <2>2. ASSUME payment[p].external_id # None
        PROVE  Owner([id |-> payment[p].external_id]) = p
    BY <2>1, <2>2 DEF PaymentOK, BoundTo, Owner, SessionId, IntentId
  <2> QED BY <2>1, <2>2 DEF PaymentOK
<1> QED BY <1>1, RInvAlways, PTL

\* Routing and acceptance agree in every reachable state.
THEOREM RoutingAlwaysAgrees == Spec => []RoutingAgrees
<1>1. RInv => RoutingAgrees
  BY HandlesAreEvidence DEF RoutingAgrees
<1> QED BY <1>1, RInvAlways, PTL

\* No sale is lost on the way to its payment, however events are routed.
THEOREM SalesNeverLost == Spec => []NoSaleLost
<1>1. RInv /\ SaleInv => NoSaleLost
  <2> SUFFICES ASSUME RInv, SaleInv, NEW c \in DOMAIN order, NEW p \in Payment,
                      order[c].status = "succeeded", order[c].owner = p
               PROVE  \E e \in events :
                        /\ e.obj.id = IntentId(c) /\ e.type = "payment_intent.succeeded"
                        /\ AppliedTo(p, e) \/ e \notin delivered
    BY DEF NoSaleLost, StatusIs, Exists
  <2>1. PICK e \in events : e.type = "payment_intent.succeeded" /\ e.obj.id = IntentId(c)
    BY DEF SaleInv, Announced
  <2>2. PICK d \in DOMAIN order : About(e, d, order)
    BY DEF RInv, EventsOK
  <2>3. e.obj.id = IntentId(d) /\ e.obj.metadata = order[d].owner
    BY <2>1, <2>2, Kinds DEF About, IntentEvents, SessionEvents, ReviewEvents, IsRefundEvent
  <2>4. d = c
    BY <2>1, <2>3, IdsDistinct
  <2>5. p \in Evidence(e.obj)
    BY <2>3, <2>4, PaymentAssumption DEF Evidence
  <2> QED BY <2>1, <2>5 DEF SaleInv, Heeded
<1> QED BY <1>1, RInvAlways, SaleInvAlways, PTL

\* What Stripe takes for delivered has reached every payment it concerns.
THEOREM DeliveryAlwaysReachesPayment == Spec => DeliveryReachesPayment
<1>1. RInv /\ SaleInv /\ [Next]_vars =>
        [\A e \in events, p \in Payment :
         /\ e \notin delivered /\ e \in delivered'
         /\ IsCorrelated(payment[p], e.obj)
         => AppliedTo(p, e)']_vars
  BY DeliveryApplies DEF SaleInv
<1> QED BY <1>1, RInvAlways, SaleInvAlways, PTL DEF Spec, DeliveryReachesPayment
=============================================================================
