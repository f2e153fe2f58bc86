-------------------------- MODULE PaymentMoneyProofs --------------------------
(* PaymentLifecycle implements PaymentMoney: a refinement proof, for any number *)
(* of checkouts, callers and attempts, and for every amount in every currency. *)
EXTENDS PaymentProofs

Whole == FromMinor(Total, Currency)
Part == {FromMinor(ToMinor(asked, Currency), Currency) :
            asked \in ChargeAmounts \ {None}}
LockedType == "payment_intent.amount_capturable_updated"

-----------------------------------------------------------------------------
(* The invariant the refinement needs besides PInv. *)

\* Stripe announces an authorization when it is made, and only manual ones.
AnnouncedOK(o, locked) ==
    /\ o.status = "requires_capture" => locked /\ o.capture_method = "manual"
    /\ o.status \notin {"requires_capture", "succeeded", "canceled"} => ~locked

\* An update that reports a lock reports one Stripe announced; a release frees
\* no amount of its own.
MoneyTold(u) ==
    /\ u.payment_event = "LOCKED" =>
         \A c \in Checkout : u.external_id = IntentId(c) => Locked(c)
    /\ u.payment_event = "LOCK_RELEASED" => u.amount = 0

\* Only a manual authorization is released.
ReleaseOK(cl) ==
    cl # None /\ cl.op = "release" => order[cl.c].capture_method = "manual"

MInv ==
    /\ \A c \in DOMAIN order : AnnouncedOK(order[c], Locked(c))
    /\ \A u \in payment.applied : MoneyTold(u)
    /\ polled # None /\ polled[1] = "update" => MoneyTold(polled[2])
    /\ \A k \in Caller : ReleaseOK(call[k])

-----------------------------------------------------------------------------
(* The facts. *)

LEMMA AnnouncedExists ==
    ASSUME PInv, NEW c, Locked(c)
    PROVE  c \in DOMAIN order
<1>1. PICK e \in events : e.type = LockedType /\ e.obj.id = IntentId(c)
  BY DEF Locked, LockedType
<1>2. PICK d \in DOMAIN order : e.obj.id = IntentId(d)
  BY <1>1 DEF PInv, StripeInv, EventTells, IntentEvents, LockedType
<1> QED BY <1>1, <1>2, IdsDistinct

\* What happened to a checkout that is not settled is its authorization.
LEMMA HappenedUnsettled ==
    ASSUME NEW c, c \in DOMAIN order => order[c].status \notin {"succeeded", "canceled"}
    PROVE  Happened(c) = When(Locked(c), Fact("LOCKED", Whole))
BY DEF Happened, When, StatusIs, Exists, Whole

LEMMA HappenedSucceeded ==
    ASSUME NEW c \in DOMAIN order, order[c].status = "succeeded"
    PROVE  Happened(c) = When(Locked(c), Fact("LOCKED", Whole)) \cup
               {Fact("PAYMENT_CAPTURED", FromMinor(order[c].amount_received, Currency))}
BY DEF Happened, When, StatusIs, Exists, Whole

LEMMA HappenedCanceled ==
    ASSUME NEW c \in DOMAIN order, order[c].status = "canceled"
    PROVE  Happened(c) = When(Locked(c), Fact("LOCKED", Whole)) \cup
               When(order[c].capture_method = "manual", Fact("LOCK_RELEASED", 0))
BY DEF Happened, When, StatusIs, Exists, Whole

\* An order that does not change, nor its announcement, tells the same facts.
LEMMA HappenedSame ==
    ASSUME NEW c, Locked(c)' = Locked(c),
           c \in DOMAIN order <=> c \in DOMAIN order',
           c \in DOMAIN order => order'[c] = order[c]
    PROVE  Happened(c)' = Happened(c)
BY DEF Happened, When, StatusIs, Exists, Whole, Total

LEMMA KnownSame ==
    ASSUME payment'.applied = payment.applied, NEW c
    PROVE  Known(c)' = Known(c)
BY DEF Known

LEMMA ToldSame ==
    ASSUME NEW c, charged'[c] = charged[c], released'[c] = released[c]
    PROVE  Told(c)' = Told(c)
BY DEF Told, When

-----------------------------------------------------------------------------
(* Steps of the abstract specification. *)

H == [c \in Checkout |-> Happened(c)]
K == [c \in Checkout |-> Known(c)]
T == [c \in Checkout |-> Told(c)]

LEMMA AbstractStutter ==
    ASSUME \A c \in Checkout : Happened(c)' = Happened(c),
           \A c \in Checkout : Known(c)' = Known(c),
           \A c \in Checkout : Told(c)' = Told(c)
    PROVE  UNCHANGED Money!vars
BY DEF Money!vars

LEMMA AbstractLock ==
    ASSUME NEW c \in Checkout, Happened(c) = {},
           Happened(c)' = {Fact("LOCKED", Whole)},
           \A d \in Checkout : d # c => Happened(d)' = Happened(d),
           \A d \in Checkout : Known(d)' = Known(d),
           \A d \in Checkout : Told(d)' = Told(d)
    PROVE  Money!Next
<1>1. H' = [H EXCEPT ![c] = H[c] \cup {Fact("LOCKED", Whole)}]
  BY DEF H
<1>2. K' = K /\ T' = T
  BY DEF K, T
<1>3. Money!Lock(c)
  BY <1>1, <1>2 DEF Money!Lock, Money!Happen, Money!Fact, Fact, Whole, H, K, T
<1> QED BY <1>3 DEF Money!Next

LEMMA AbstractCapture ==
    ASSUME NEW c \in Checkout, Happened(c) \subseteq {Fact("LOCKED", Whole)},
           NEW amount \in {Whole} \cup Part, amount <= Whole,
           Happened(c) = {} => amount = Whole,
           Happened(c)' = Happened(c) \cup {Fact("PAYMENT_CAPTURED", amount)},
           \A d \in Checkout : d # c => Happened(d)' = Happened(d),
           \A d \in Checkout : Known(d)' = Known(d),
           \/ Told(c)' = Told(c)
           \/ Told(c)' = Told(c) \cup {Fact("PAYMENT_CAPTURED", amount)},
           \A d \in Checkout : d # c => Told(d)' = Told(d)
    PROVE  Money!Next
<1> DEFINE fact == Fact("PAYMENT_CAPTURED", amount)
<1>1. H' = [H EXCEPT ![c] = H[c] \cup {fact}]
  BY DEF H
<1>2. K' = K
  BY DEF K
<1>3. T' \in {T, [T EXCEPT ![c] = T[c] \cup {fact}]}
  <2>1. CASE Told(c)' = Told(c)
    BY <2>1 DEF T
  <2>2. CASE Told(c)' = Told(c) \cup {fact}
    BY <2>2 DEF T
  <2> QED BY <2>1, <2>2
<1>4. Money!Capture(c)
  BY <1>1, <1>2, <1>3 DEF Money!Capture, Money!Unsettled, Money!Happen, Money!MayTell,
     Money!Fact, Fact, Whole, Part, H, K, T
<1> QED BY <1>4 DEF Money!Next

LEMMA AbstractRelease ==
    ASSUME NEW c \in Checkout, Happened(c) \subseteq {Fact("LOCKED", Whole)},
           Happened(c)' = Happened(c) \cup {Fact("LOCK_RELEASED", 0)},
           \A d \in Checkout : d # c => Happened(d)' = Happened(d),
           \A d \in Checkout : Known(d)' = Known(d),
           \/ Told(c)' = Told(c)
           \/ Told(c)' = Told(c) \cup {Fact("LOCK_RELEASED", 0)},
           \A d \in Checkout : d # c => Told(d)' = Told(d)
    PROVE  Money!Next
<1> DEFINE fact == Fact("LOCK_RELEASED", 0)
<1>1. H' = [H EXCEPT ![c] = H[c] \cup {fact}]
  BY DEF H
<1>2. K' = K
  BY DEF K
<1>3. T' \in {T, [T EXCEPT ![c] = T[c] \cup {fact}]}
  <2>1. CASE Told(c)' = Told(c)
    BY <2>1 DEF T
  <2>2. CASE Told(c)' = Told(c) \cup {fact}
    BY <2>2 DEF T
  <2> QED BY <2>1, <2>2
<1>4. Money!Release(c)
  BY <1>1, <1>2, <1>3 DEF Money!Release, Money!Unsettled, Money!Happen, Money!MayTell,
     Money!Fact, Fact, Whole, H, K, T
<1> QED BY <1>4 DEF Money!Next

LEMMA AbstractLearn ==
    ASSUME NEW c \in Checkout, NEW fact \in Happened(c),
           Known(c)' = Known(c) \cup {fact},
           \A d \in Checkout : d # c => Known(d)' = Known(d),
           \A d \in Checkout : Happened(d)' = Happened(d),
           \A d \in Checkout : Told(d)' = Told(d)
    PROVE  Money!Next
<1>1. K' = [K EXCEPT ![c] = K[c] \cup {fact}]
  BY DEF K
<1>2. H' = H /\ T' = T
  BY DEF H, T
<1>3. Money!Learn(c)
  BY <1>1, <1>2 DEF Money!Learn, H, K, T
<1> QED BY <1>3 DEF Money!Next

-----------------------------------------------------------------------------
(* Stripe's moves. *)

\* A transition that announces an authorization exactly when it makes one.
Moves(c, status, fields, new) ==
    /\ Transition(c, status, fields) /\ FieldsOK(status, fields) /\ Emit(new)
    /\ \A e \in new : e.type = LockedType =>
         e.obj.id = IntentId(c) /\ status = "requires_capture"
    /\ status = "requires_capture" =>
         /\ order[c].capture_method = "manual"
         /\ \E e \in new : e.type = LockedType /\ e.obj.id = IntentId(c)

LEMMA TransitionKeeps ==
    ASSUME PInv, NEW c, NEW status, NEW fields,
           Transition(c, status, fields), FieldsOK(status, fields)
    PROVE  /\ c \in DOMAIN order /\ DOMAIN order' = DOMAIN order
           /\ order[c].status \notin {"succeeded", "canceled", "expired"}
           /\ status \in Transitions(order[c].status)
           /\ order[c].status \in CheckoutStatus
           /\ order'[c].status = status
           /\ order'[c].capture_method = order[c].capture_method
           /\ \A f \in DOMAIN fields : order'[c][f] = fields[f]
           /\ \A d \in DOMAIN order : d # c => order'[d] = order[d]
<1>1. OrdersOK(order)
  BY DEF PInv, StripeInv
<1>2. /\ c \in DOMAIN order /\ DOMAIN order' = DOMAIN order /\ OrderOK(order[c])
      /\ order[c].status \notin {"succeeded", "canceled", "expired"}
      /\ order'[c] = [f \in DOMAIN order[c] |->
                          IF f = "status" THEN status
                          ELSE IF f \in DOMAIN fields THEN fields[f]
                          ELSE order[c][f]]
      /\ \A d \in DOMAIN order : d # c => order'[d] = order[d]
  BY <1>1, TransitionEffect
<1>3. order'[c].status = status /\ \A f \in DOMAIN fields : order'[c][f] = fields[f]
  BY <1>1, GoodTransition
<1>4. order'[c].capture_method = order[c].capture_method
  BY <1>2, OrderFields DEF FieldsOK
<1> QED BY <1>2, <1>3, <1>4 DEF Transition, OrderOK

LEMMA MovesLocks ==
    ASSUME PInv, MInv, NEW c, NEW status, NEW fields, NEW new,
           Moves(c, status, fields, new)
    PROVE  /\ \A d : d # c => Locked(d)' = Locked(d)
           /\ Locked(c)' <=> (Locked(c) \/ status = "requires_capture")
           /\ Locked(c) => order[c].status = "requires_capture"
           /\ order[c].status = "requires_capture" =>
                /\ Locked(c) /\ order[c].capture_method = "manual"
                /\ status \in {"succeeded", "canceled"}
<1>1. events' = events \cup new
  BY DEF Moves, Emit
<1>2. ASSUME NEW d, d # c PROVE Locked(d)' = Locked(d)
  BY <1>1, <1>2, IdsDistinct DEF Locked, Moves, LockedType
<1>3. Locked(c)' <=> (Locked(c) \/ status = "requires_capture")
  BY <1>1 DEF Locked, Moves, LockedType
<1>4. /\ c \in DOMAIN order /\ order[c].status \notin {"succeeded", "canceled"}
      /\ status \in Transitions(order[c].status)
  BY TransitionKeeps DEF Moves
<1>5. AnnouncedOK(order[c], Locked(c))
  BY <1>4 DEF MInv
<1> QED BY <1>2, <1>3, <1>4, <1>5 DEF AnnouncedOK, Transitions

\* The invariant only speaks of what is announced, kept or newly said.
LEMMA MInvKept ==
    ASSUME PInv, MInv, \A c : Locked(c) => Locked(c)',
           \A c \in DOMAIN order' : AnnouncedOK(order'[c], Locked(c)'),
           \A c \in DOMAIN order : order'[c].capture_method = order[c].capture_method,
           \A u \in payment'.applied \ payment.applied : MoneyTold(u),
           \/ polled' = polled
           \/ polled' # None /\ polled'[1] = "update" => MoneyTold(polled'[2]),
           \A k \in Caller :
               \/ call'[k] \in {None, call[k]}
               \/ CallOK(call'[k], order) /\ ReleaseOK(call'[k])
    PROVE  MInv'
<1>1. ASSUME NEW u \in payment'.applied PROVE MoneyTold(u)'
  <2>1. MoneyTold(u)
    BY DEF MInv
  <2> QED BY <2>1 DEF MoneyTold
<1>2. (polled # None /\ polled[1] = "update" => MoneyTold(polled[2]))'
  <2>1. PICK p : p = polled'
    OBVIOUS
  <2>2. p # None /\ p[1] = "update" => MoneyTold(p[2])
    BY <2>1 DEF MInv
  <2> QED BY <2>1, <2>2 DEF MoneyTold
<1>3. ASSUME NEW k \in Caller PROVE ReleaseOK(call[k])'
  <2>1. PICK cl : cl = call'[k]
    OBVIOUS
  <2>2. cl # None => CallOK(cl, order) /\ ReleaseOK(cl)
    BY <2>1 DEF MInv, PInv, PluginInv
  <2> QED BY <2>1, <2>2 DEF ReleaseOK, CallOK
<1>4. ASSUME NEW c \in DOMAIN order' PROVE AnnouncedOK(order[c], Locked(c))'
  BY DEF AnnouncedOK
<1> QED BY <1>1, <1>2, <1>3, <1>4 DEF MInv

LEMMA MovesKeepMInv ==
    ASSUME PInv, MInv, NEW c, NEW status, NEW fields, NEW new,
           Moves(c, status, fields, new), UNCHANGED <<payment, polled>>,
           \A k \in Caller : call'[k] \in {None, call[k]}
    PROVE  MInv'
<1>1. /\ \A d : d # c => Locked(d)' = Locked(d)
      /\ Locked(c)' <=> (Locked(c) \/ status = "requires_capture")
      /\ Locked(c) => order[c].status = "requires_capture"
      /\ order[c].status = "requires_capture" =>
           /\ Locked(c) /\ order[c].capture_method = "manual"
           /\ status \in {"succeeded", "canceled"}
  BY MovesLocks
<1>2. /\ c \in DOMAIN order /\ DOMAIN order' = DOMAIN order
      /\ order'[c].status = status
      /\ order'[c].capture_method = order[c].capture_method
      /\ \A d \in DOMAIN order : d # c => order'[d] = order[d]
  BY TransitionKeeps DEF Moves
<1>3. AnnouncedOK(order'[c], Locked(c)')
  BY <1>1, <1>2 DEF AnnouncedOK, Moves
<1>4. ASSUME NEW d \in DOMAIN order, d # c PROVE AnnouncedOK(order'[d], Locked(d)')
  BY <1>1, <1>2, <1>4 DEF MInv, AnnouncedOK
<1>5. \A d \in DOMAIN order' : AnnouncedOK(order'[d], Locked(d)')
  BY <1>2, <1>3, <1>4
<1>6. \A d : Locked(d) => Locked(d)'
  BY <1>1
<1> QED BY <1>2, <1>5, <1>6, MInvKept

\* The facts of the other checkouts stay; this one's grow by what the status says.
LEMMA MovesHappen ==
    ASSUME PInv, MInv, NEW c, NEW status, NEW fields, NEW new,
           Moves(c, status, fields, new)
    PROVE  /\ \A d : d # c => Happened(d)' = Happened(d)
           /\ Happened(c) = IF order[c].status = "requires_capture"
                            THEN {Fact("LOCKED", Whole)} ELSE {}
           /\ status = "requires_capture" =>
                order[c].status # status /\ Happened(c)' = {Fact("LOCKED", Whole)}
           /\ status = "succeeded" => Happened(c)' = Happened(c) \cup
                {Fact("PAYMENT_CAPTURED", FromMinor(order'[c].amount_received, Currency))}
           /\ status = "canceled" => Happened(c)' = Happened(c) \cup
                When(order[c].capture_method = "manual", Fact("LOCK_RELEASED", 0))
           /\ status \notin {"requires_capture", "succeeded", "canceled"} =>
                Happened(c)' = Happened(c)
<1>1. /\ \A d : d # c => Locked(d)' = Locked(d)
      /\ Locked(c)' <=> (Locked(c) \/ status = "requires_capture")
      /\ Locked(c) <=> order[c].status = "requires_capture"
      /\ order[c].status = "requires_capture" => status \in {"succeeded", "canceled"}
  BY MovesLocks
<1>2. /\ c \in DOMAIN order /\ DOMAIN order' = DOMAIN order
      /\ order[c].status \notin {"succeeded", "canceled"}
      /\ order'[c].status = status
      /\ order'[c].capture_method = order[c].capture_method
      /\ \A d \in DOMAIN order : d # c => order'[d] = order[d]
  BY TransitionKeeps DEF Moves
<1>3. ASSUME NEW d, d # c PROVE Happened(d)' = Happened(d)
  BY <1>1, <1>2, <1>3, HappenedSame
<1>4. Happened(c) = When(Locked(c), Fact("LOCKED", Whole))
  BY <1>2, HappenedUnsettled
<1>5. Happened(c)' = When(Locked(c)', Fact("LOCKED", Whole))
        \cup When(status = "succeeded",
              Fact("PAYMENT_CAPTURED", FromMinor(order'[c].amount_received, Currency)))
        \cup When(status = "canceled" /\ order[c].capture_method = "manual",
              Fact("LOCK_RELEASED", 0))
  BY <1>2 DEF Happened, StatusIs, Exists, Whole, Total, When
<1> QED BY <1>1, <1>3, <1>4, <1>5 DEF When

\* What a step must show: the invariant, and a step of PaymentMoney or none.
MoneyStep == MInv' /\ [Money!Next]_(Money!vars)

LEMMA WholeIsNat ==
    ASSUME PInv, NEW c \in DOMAIN order
    PROVE  Whole \in Nat /\ Total \in Nat
BY TotalIsNat, FromMinorIsNat DEF PInv, StripeInv, Whole

\* A move of Stripe alone takes the whole amount, if any.
LEMMA MoveStep ==
    ASSUME PInv, MInv, NEW c \in Checkout, NEW status, NEW fields, NEW new,
           Moves(c, status, fields, new), UNCHANGED plugin,
           status = "succeeded" => /\ "amount_received" \in DOMAIN fields
                                   /\ fields.amount_received = Total
    PROVE  MoneyStep
<1>1. UNCHANGED <<payment, call, polled, charged, released>>
  BY DEF plugin
<1>2. MInv'
  BY <1>1, MovesKeepMInv
<1>3. /\ \A d \in Checkout : Known(d)' = Known(d)
      /\ \A d \in Checkout : Told(d)' = Told(d)
  BY <1>1, KnownSame, ToldSame
<1>4. /\ \A d : d # c => Happened(d)' = Happened(d)
      /\ Happened(c) = IF order[c].status = "requires_capture"
                       THEN {Fact("LOCKED", Whole)} ELSE {}
      /\ status = "requires_capture" =>
           order[c].status # status /\ Happened(c)' = {Fact("LOCKED", Whole)}
      /\ status = "succeeded" => Happened(c)' = Happened(c) \cup
           {Fact("PAYMENT_CAPTURED", FromMinor(order'[c].amount_received, Currency))}
      /\ status = "canceled" => Happened(c)' = Happened(c) \cup
           When(order[c].capture_method = "manual", Fact("LOCK_RELEASED", 0))
      /\ status \notin {"requires_capture", "succeeded", "canceled"} =>
           Happened(c)' = Happened(c)
  BY MovesHappen
<1>5. CASE status = "requires_capture"
  BY <1>2, <1>3, <1>4, <1>5, AbstractLock DEF MoneyStep
<1>6. CASE status = "succeeded"
  <2>1. c \in DOMAIN order /\ order'[c].amount_received = Total
    BY <1>6, TransitionKeeps DEF Moves
  <2>2. Happened(c)' = Happened(c) \cup {Fact("PAYMENT_CAPTURED", Whole)}
    BY <1>4, <1>6, <2>1 DEF Whole
  <2>3. Whole <= Whole
    BY <2>1, WholeIsNat
  <2>4. Happened(c) \subseteq {Fact("LOCKED", Whole)} /\ Whole \in {Whole} \cup Part
    BY <1>4
  <2>5. Money!Next
    BY <1>3, <1>4, <2>2, <2>3, <2>4, AbstractCapture
  <2> QED BY <1>2, <2>5 DEF MoneyStep
<1>7. CASE status = "canceled"
  <2>1. CASE order[c].capture_method = "manual"
    <3>1. Happened(c)' = Happened(c) \cup {Fact("LOCK_RELEASED", 0)}
      BY <1>4, <1>7, <2>1 DEF When
    <3>2. Happened(c) \subseteq {Fact("LOCKED", Whole)}
      BY <1>4
    <3>3. Money!Next
      BY <1>3, <1>4, <3>1, <3>2, AbstractRelease
    <3> QED BY <1>2, <3>3 DEF MoneyStep
  <2>2. CASE order[c].capture_method # "manual"
    <3>1. Happened(c)' = Happened(c)
      BY <1>4, <1>7, <2>2 DEF When
    <3> QED BY <1>2, <1>3, <1>4, <3>1, AbstractStutter DEF MoneyStep
  <2> QED BY <2>1, <2>2
<1>8. CASE status \notin {"requires_capture", "succeeded", "canceled"}
  <2>1. \A d \in Checkout : Happened(d)' = Happened(d)
    BY <1>4, <1>8
  <2> QED BY <1>2, <1>3, <2>1, AbstractStutter DEF MoneyStep
<1> QED BY <1>5, <1>6, <1>7, <1>8

\* Only amount_capturable_updated announces an authorization.
LEMMA Announces ==
    ASSUME NEW c, NEW type
    PROVE  /\ SessionEvent(c, type).type = type
           /\ IntentEvent(c, type).type = type /\ IntentEvent(c, type).obj.id = IntentId(c)
BY DEF SessionEvent, IntentEvent, PaymentIntentObject

LEMMA StripeMoneyStep ==
    ASSUME PInv, MInv, NEW c \in Checkout, StripeActs(c)
    PROVE  MoneyStep
<1> USE DEF LockedType
<1> DEFINE paid == [has_payment_intent |-> TRUE]
           held == [has_payment_intent |-> TRUE, amount_capturable |-> Total]
           got == [has_payment_intent |-> TRUE, amount_received |-> Total]
<1>1. UNCHANGED plugin
  BY DEF StripeActs
<1>2. Exists(c) => Total \in Nat
  BY WholeIsNat DEF Exists
<1>3. CASE Decline(c)
  <2>1. PICK new : new = {IntentEvent(c, "payment_intent.payment_failed")}
    OBVIOUS
  <2>2. Moves(c, "declined", paid, new)
    BY <1>3, <2>1, Announces DEF Decline, Attempt, FieldsOK, Moves
  <2> QED BY <1>1, <2>2, MoveStep
<1>4. CASE PayDelayed(c)
  <2>1. PICK new : new = {SessionEvent(c, "checkout.session.completed")}
    OBVIOUS
  <2>2. Moves(c, "processing", paid, new)
    BY <1>4, <2>1, Announces DEF PayDelayed, Attempt, FieldsOK, Moves
  <2> QED BY <1>1, <2>2, MoveStep
<1>5. CASE PayManual(c)
  <2>1. PICK new : new = {SessionEvent(c, "checkout.session.completed"),
                          IntentEvent(c, "payment_intent.amount_capturable_updated")}
    OBVIOUS
  <2>2. Moves(c, "requires_capture", held, new)
    BY <1>5, <2>1, Announces DEF PayManual, Attempt, FieldsOK, Moves
  <2> QED BY <1>1, <2>2, MoveStep
<1>6. CASE PayAutomatic(c)
  <2>1. PICK new : new = {SessionEvent(c, "checkout.session.completed"),
                          IntentEvent(c, "payment_intent.succeeded")}
    OBVIOUS
  <2>2. Exists(c)
    BY <1>6 DEF PayAutomatic, Attempt, Transition
  <2>3. Moves(c, "succeeded", got, new)
    BY <1>2, <1>6, <2>1, <2>2, Announces DEF PayAutomatic, Attempt, FieldsOK, Moves
  <2> QED BY <1>1, <2>3, MoveStep
<1>7. CASE ExpireSession(c)
  <2>1. PICK new : new = {SessionEvent(c, "checkout.session.expired")}
    OBVIOUS
  <2>2. Moves(c, "expired", <<>>, new)
    BY <1>7, <2>1, Announces DEF ExpireSession, FieldsOK, Moves
  <2> QED BY <1>1, <2>2, MoveStep
<1>8. CASE SettleDelayed(c)
  <2> DEFINE fields == [amount_received |-> Total]
  <2>1. PICK new : new = {IntentEvent(c, "payment_intent.succeeded")}
    OBVIOUS
  <2>2. Moves(c, "succeeded", fields, new)
    BY <1>2, <1>8, <2>1, Announces DEF SettleDelayed, StatusIs, FieldsOK, Moves
  <2> QED BY <1>1, <2>2, MoveStep
<1>9. CASE FailDelayed(c)
  <2>1. PICK new : new = {IntentEvent(c, "payment_intent.payment_failed")}
    OBVIOUS
  <2>2. Moves(c, "declined", <<>>, new)
    BY <1>9, <2>1, Announces DEF FailDelayed, FieldsOK, Moves
  <2> QED BY <1>1, <2>2, MoveStep
<1>10. CASE CancelIntent(c)
  <2> DEFINE fields == [amount_capturable |-> 0]
  <2>1. PICK new : new = {IntentEvent(c, "payment_intent.canceled")}
    OBVIOUS
  <2>2. Moves(c, "canceled", fields, new)
    BY <1>10, <2>1, Announces DEF CancelIntent, FieldsOK, Moves
  <2> QED BY <1>1, <2>2, MoveStep
\* A review moves no money and announces none.
<1>11. CASE OpenReview(c) \/ CloseReview(c)
  <2>1. UNCHANGED <<order, payment, call, polled, charged, released>>
    BY <1>1, <1>11 DEF OpenReview, CloseReview, plugin
  <2>2. events \subseteq events' /\ \A e \in events' \ events : e.type # LockedType
    BY <1>11 DEF OpenReview, CloseReview, Emit, ReviewEvent
  <2>3. \A d : Locked(d)' = Locked(d)
    BY <2>2 DEF Locked
  <2>4. MInv'
    BY <2>1, <2>3, MInvKept DEF MInv
  <2>5. \A d \in Checkout : Happened(d)' = Happened(d)
    BY <2>1, <2>3, HappenedSame
  <2> QED BY <2>1, <2>4, <2>5, KnownSame, ToldSame, AbstractStutter DEF MoneyStep
<1> QED BY <1>3, <1>4, <1>5, <1>6, <1>7, <1>8, <1>9, <1>10, <1>11
     DEF StripeActs, Buyer

-----------------------------------------------------------------------------
(* The plugin's steps. *)

\* prepare_transaction() adds an order about which nothing happened yet.
LEMMA PrepareMoneyStep ==
    ASSUME PInv, MInv, NEW c \in Checkout, NEW capture_method \in {"automatic", "manual"},
           Prepare(c, capture_method)
    PROVE  MoneyStep
<1>1. /\ c \notin DOMAIN order
      /\ DOMAIN order' = DOMAIN order \cup {c}
      /\ order'[c] = NewOrder(PaymentId, capture_method)
      /\ \A b \in DOMAIN order : order'[b] = order[b]
      /\ payment'.applied = payment.applied
      /\ UNCHANGED <<events, call, polled, charged, released>>
  BY DEF Prepare, Exists, PInv, PluginInv, PaymentOK, NewPayment
<1>2. order'[c].status = "open"
  BY <1>1 DEF NewOrder
<1>3. \A d : Locked(d)' = Locked(d)
  BY <1>1 DEF Locked
<1>4. ~Locked(c)
  BY <1>1, AnnouncedExists
<1>5. \A d \in DOMAIN order' : AnnouncedOK(order'[d], Locked(d)')
  BY <1>1, <1>2, <1>3, <1>4 DEF AnnouncedOK, MInv
<1>6. MInv'
  BY <1>1, <1>3, <1>5, MInvKept
<1>7. Happened(c) = {} /\ Happened(c)' = {}
  BY <1>1, <1>2, <1>3, <1>4 DEF Happened, When, StatusIs, Exists
<1>8. ASSUME NEW d \in Checkout, d # c PROVE Happened(d)' = Happened(d)
  BY <1>1, <1>3, <1>8, HappenedSame
<1>9. \A d \in Checkout : Happened(d)' = Happened(d)
  BY <1>7, <1>8
<1>10. \A d \in Checkout : Told(d)' = Told(d)
  BY <1>1, ToldSame
<1> QED BY <1>1, <1>6, <1>9, <1>10, KnownSame, AbstractStutter DEF MoneyStep

\* What a true update adds to what the payment knows has happened.
LEMMA LearnStep ==
    ASSUME PInv, MInv, NEW update,
           payment' = ApplyPaymentUpdate(payment, update),
           update # None => TellsTruth(update, order) /\ MoneyTold(update),
           UNCHANGED <<order, events, call, charged, released>>,
           polled' \in {None, polled}
    PROVE  MoneyStep
<1>1. \A d : Locked(d)' = Locked(d)
  BY DEF Locked
<1>2. /\ \A d \in Checkout : Happened(d)' = Happened(d)
      /\ \A d \in Checkout : Told(d)' = Told(d)
  BY <1>1, HappenedSame, ToldSame
<1>3. \/ payment'.applied = payment.applied
      \/ update # None /\ payment'.applied = payment.applied \cup {update}
  BY DEF ApplyPaymentUpdate, PInv, PluginInv, PaymentOK, NewPayment
<1>4. \A u \in payment'.applied \ payment.applied : MoneyTold(u)
  BY <1>3
<1>5. \A d \in DOMAIN order' : AnnouncedOK(order'[d], Locked(d)')
  BY <1>1 DEF MInv
<1>6. MInv'
  BY <1>1, <1>4, <1>5, MInvKept
<1>7. CASE payment'.applied = payment.applied
  BY <1>2, <1>6, <1>7, KnownSame, AbstractStutter DEF MoneyStep
<1>8. CASE update # None /\ payment'.applied = payment.applied \cup {update}
  <2> DEFINE money == {"LOCKED", "PAYMENT_CAPTURED", "LOCK_RELEASED"}
             fact == Fact(update.payment_event, update.amount)
  <2>1. \A d : Known(d)' = Known(d) \cup
          When(update.external_id = IntentId(d) /\ update.payment_event \in money, fact)
    BY <1>8 DEF Known, When
  <2>2. CASE \E c \in Checkout :
               update.external_id = IntentId(c) /\ update.payment_event \in money
    <3>1. PICK c \in Checkout :
            update.external_id = IntentId(c) /\ update.payment_event \in money
      BY <2>2
    <3>2. c \in DOMAIN order
      BY <1>8, <3>1, IdsDistinct DEF TellsTruth
    <3>3. fact \in Happened(c)
      <4>1. CASE update.payment_event = "LOCKED"
        <5>1. Locked(c) /\ update.amount = FromMinor(Total, Currency)
          BY <1>8, <3>1, <3>2, <4>1 DEF TellsTruth, MoneyTold
        <5> QED BY <4>1, <5>1 DEF Happened, When
      <4>2. CASE update.payment_event = "PAYMENT_CAPTURED"
        <5>1. /\ order[c].status = "succeeded"
              /\ update.amount = FromMinor(order[c].amount_received, Currency)
          BY <1>8, <3>1, <3>2, <4>2 DEF TellsTruth
        <5> QED BY <3>2, <4>2, <5>1 DEF Happened, When, StatusIs, Exists
      <4>3. CASE update.payment_event = "LOCK_RELEASED"
        <5>1. /\ order[c].status = "canceled" /\ order[c].capture_method = "manual"
              /\ update.amount = 0
          BY <1>8, <3>1, <3>2, <4>3 DEF TellsTruth, MoneyTold
        <5> QED BY <3>2, <4>3, <5>1 DEF Happened, When, StatusIs, Exists
      <4> QED BY <3>1, <4>1, <4>2, <4>3
    <3>4. Known(c)' = Known(c) \cup {fact}
      BY <2>1, <3>1 DEF When
    <3>5. ASSUME NEW d \in Checkout, d # c PROVE Known(d)' = Known(d)
      BY <2>1, <3>1, <3>5, IdsDistinct DEF When
    <3>6. Money!Next
      BY <1>2, <3>3, <3>4, <3>5, AbstractLearn
    <3> QED BY <1>6, <3>6 DEF MoneyStep
  <2>3. CASE \A c \in Checkout :
               ~(update.external_id = IntentId(c) /\ update.payment_event \in money)
    <3>1. \A d \in Checkout : Known(d)' = Known(d)
      BY <2>1, <2>3 DEF When
    <3> QED BY <1>2, <1>6, <3>1, AbstractStutter DEF MoneyStep
  <2> QED BY <2>2, <2>3
<1> QED BY <1>3, <1>7, <1>8

\* Neither mapper reports a lock of its own making.
LEMMA CanceledMoneyTold ==
    ASSUME NEW obj, NEW event_id
    PROVE  MoneyTold(CanceledUpdate(obj, event_id))
<1>1. CASE obj.capture_method = "manual"
  BY <1>1 DEF CanceledUpdate, PaymentUpdate, MoneyTold
<1>2. CASE obj.capture_method # "manual"
  BY <1>2 DEF CanceledUpdate, FailedUpdate, PaymentUpdate, MoneyTold
<1> QED BY <1>1, <1>2

LEMMA CallbackMoneyTold ==
    ASSUME NEW local, NEW e \in events, HandleCallback(local, e) # None
    PROVE  MoneyTold(HandleCallback(local, e))
<1>1. IsCorrelated(local, e.obj)
  BY DEF HandleCallback
<1>2. CASE e.type \in SessionEvents
  <2>1. HandleCallback(local, e) = MapSessionEvent(e)
    BY <1>1, <1>2 DEF HandleCallback, SessionEvents, IntentEvents, ReviewEvents
  <2>2. \E said \in {None, "FAILED"} :
          MapSessionEvent(e) = PaymentUpdate(said, 0, e.obj.payment_intent, e)
    BY <1>2 DEF MapSessionEvent, FailedUpdate, SessionEvents
  <2>3. None \notin {"LOCKED", "LOCK_RELEASED"}
    BY NoneAssumption DEF PaymentEvent
  <2> QED BY <2>1, <2>2, <2>3 DEF PaymentUpdate, MoneyTold
<1>3. CASE e.type \in IntentEvents
  <2>1. HandleCallback(local, e) = MapPaymentIntentEvent(e)
    BY <1>1, <1>3 DEF HandleCallback, SessionEvents, IntentEvents, ReviewEvents
  <2>2. CASE e.type = "payment_intent.amount_capturable_updated"
    <3>1. HandleCallback(local, e) = LockedUpdate(e.obj, e)
      BY <2>1, <2>2 DEF MapPaymentIntentEvent
    <3> QED BY <2>2, <3>1 DEF LockedUpdate, PaymentUpdate, MoneyTold, Locked
  <2>3. CASE e.type = "payment_intent.succeeded"
    <3>1. HandleCallback(local, e) = CapturedUpdate(e.obj, e)
      BY <2>1, <2>3 DEF MapPaymentIntentEvent
    <3> QED BY <3>1 DEF CapturedUpdate, PaymentUpdate, MoneyTold
  <2>4. CASE e.type = "payment_intent.payment_failed"
    <3>1. HandleCallback(local, e) = FailedUpdate(e.obj, e.obj.id, e)
      BY <2>1, <2>4 DEF MapPaymentIntentEvent
    <3> QED BY <3>1 DEF FailedUpdate, PaymentUpdate, MoneyTold
  <2>5. CASE e.type = "payment_intent.canceled"
    <3>1. HandleCallback(local, e) = CanceledUpdate(e.obj, e)
      BY <2>1, <2>5 DEF MapPaymentIntentEvent
    <3> QED BY <3>1, CanceledMoneyTold
  <2> QED BY <1>3, <2>2, <2>3, <2>4, <2>5 DEF IntentEvents
<1>4. CASE e.type \in ReviewEvents
  <2>1. HandleCallback(local, e) = MapReviewEvent(e)
    BY <1>1, <1>4 DEF HandleCallback, SessionEvents, IntentEvents, ReviewEvents
  <2>2. \E said \in {"REVIEW", "ACCEPT", "REJECT"} :
          MapReviewEvent(e) = PaymentUpdate(said, 0, e.obj.payment_intent, e)
    BY <1>4 DEF MapReviewEvent, ReviewEvents
  <2> QED BY <2>1, <2>2 DEF PaymentUpdate, MoneyTold
<1>5. CASE e.type \notin SessionEvents \cup IntentEvents \cup ReviewEvents
  BY <1>1, <1>5 DEF HandleCallback
<1> QED BY <1>2, <1>3, <1>4, <1>5

\* A poll that finds an intent capturable finds what Stripe announced.
LEMMA PulledMoneyTold ==
    ASSUME PInv, MInv, NEW c \in DOMAIN order,
           MapPulledIntent(PaymentIntentObject(c, order[c])) # None
    PROVE  MoneyTold(MapPulledIntent(PaymentIntentObject(c, order[c])))
<1> DEFINE obj == PaymentIntentObject(c, order[c])
<1>1. obj.id = IntentId(c) /\ obj.status = PaymentIntentStatus(order[c])
  BY DEF PaymentIntentObject
<1>2. CASE obj.status = "requires_capture"
  <2>1. Locked(c)
    BY <1>1, <1>2 DEF PaymentIntentStatus, MInv, AnnouncedOK
  <2>2. MapPulledIntent(obj) = LockedUpdate(obj, None)
    BY <1>2 DEF MapPulledIntent
  <2> QED BY <1>1, <2>1, <2>2, IdsDistinct DEF LockedUpdate, PaymentUpdate, MoneyTold
<1>3. CASE obj.status = "succeeded"
  <2>1. MapPulledIntent(obj) = CapturedUpdate(obj, None)
    BY <1>3 DEF MapPulledIntent
  <2> QED BY <2>1 DEF CapturedUpdate, PaymentUpdate, MoneyTold
<1>4. CASE obj.status = "canceled"
  <2>1. MapPulledIntent(obj) = CanceledUpdate(obj, None)
    BY <1>4 DEF MapPulledIntent
  <2> QED BY <2>1, CanceledMoneyTold
<1>5. CASE obj.status \notin {"requires_capture", "succeeded", "canceled"}
  BY <1>5 DEF MapPulledIntent
<1> QED BY <1>2, <1>3, <1>4, <1>5

LEMMA CallbackMoneyStep ==
    ASSUME PInv, MInv, NEW e \in events, Callback(e)
    PROVE  MoneyStep
<1>1. PICK update : update = HandleCallback(payment, e)
  OBVIOUS
<1>2. /\ payment' = ApplyPaymentUpdate(payment, update)
      /\ UNCHANGED <<order, events, call, polled, charged, released>>
  BY <1>1 DEF Callback, Apply, stripe
<1>3. update # None => TellsTruth(update, order) /\ MoneyTold(update)
  BY <1>1, CallbackTells, CallbackMoneyTold DEF PInv, StripeInv
<1> QED BY <1>2, <1>3, LearnStep

LEMMA ApplyPolledMoneyStep ==
    ASSUME PInv, MInv, ApplyPolled
    PROVE  MoneyStep
<1>1. PICK update : update = polled[2]
  OBVIOUS
<1>2. /\ polled # None /\ polled[1] = "update" /\ polled' = None
      /\ payment' = ApplyPaymentUpdate(payment, update)
      /\ UNCHANGED <<order, events, call, charged, released>>
  BY <1>1 DEF ApplyPolled, Apply, stripe
<1>3. TellsTruth(update, order) /\ MoneyTold(update)
  BY <1>1, <1>2 DEF PInv, PluginInv, PollOK, MInv
<1> QED BY <1>2, <1>3, LearnStep

\* Saving a session's id, asking, starting and failing move no money and tell
\* nothing.
LEMMA QuietStep ==
    ASSUME PInv, MInv, UNCHANGED <<order, events, charged, released>>,
           payment'.applied = payment.applied,
           \/ polled' = polled
           \/ polled' # None /\ polled'[1] = "update" => MoneyTold(polled'[2]),
           \A k \in Caller :
               \/ call'[k] \in {None, call[k]}
               \/ CallOK(call'[k], order) /\ ReleaseOK(call'[k])
    PROVE  MoneyStep
<1>1. \A d : Locked(d)' = Locked(d)
  BY DEF Locked
<1>2. \A d \in DOMAIN order' : AnnouncedOK(order'[d], Locked(d)')
  BY <1>1 DEF MInv
<1>3. MInv'
  BY <1>1, <1>2, MInvKept
<1>4. /\ \A d \in Checkout : Happened(d)' = Happened(d)
      /\ \A d \in Checkout : Told(d)' = Told(d)
      /\ \A d \in Checkout : Known(d)' = Known(d)
  BY <1>1, HappenedSame, ToldSame, KnownSame
<1> QED BY <1>3, <1>4, AbstractStutter DEF MoneyStep

LEMMA SavePreparedMoneyStep ==
    ASSUME PInv, MInv, NEW c \in Checkout, SavePrepared(c)
    PROVE  MoneyStep
<1>1. /\ payment'.applied = payment.applied
      /\ UNCHANGED <<order, events, call, polled, charged, released>>
  BY DEF SavePrepared, stripe, PInv, PluginInv, PaymentOK, NewPayment
<1> QED BY <1>1, QuietStep

LEMMA PollMoneyStep ==
    ASSUME PInv, MInv, NEW c \in Checkout, PollSession(c) \/ PollIntent(c)
    PROVE  MoneyStep
<1>1. UNCHANGED <<order, events, payment, call, charged, released>>
  BY DEF PollSession, PollIntent, stripe
<1>2. polled' # None /\ polled'[1] = "update" => MoneyTold(polled'[2])
  <2>1. CASE PollSession(c)
    <3>1. PICK update : update = FailedUpdate(SessionObject(c, order[c]), None, None)
      OBVIOUS
    <3>2. polled' \in {None, <<"update", update>>, <<"intent", c>>}
      BY <2>1, <3>1 DEF PollSession, PollAnswers
    <3>3. MoneyTold(update)
      BY <3>1 DEF FailedUpdate, PaymentUpdate, MoneyTold
    <3> QED BY <3>2, <3>3
  <2>2. CASE PollIntent(c)
    <3>1. PICK update : update = MapPulledIntent(PaymentIntentObject(c, order[c]))
      OBVIOUS
    <3>2. polled' = IF update = None THEN None ELSE <<"update", update>>
      BY <2>2, <3>1 DEF PollIntent, PollAnswers
    <3>3. c \in DOMAIN order
      <4>1. CASE polled = <<"intent", c>>
        BY <4>1, IdAssumption DEF PInv, PluginInv, PollOK
      <4>2. CASE payment.external_id = IntentId(c)
        BY <4>2, BoundExists
      <4> QED BY <2>2, <4>1, <4>2 DEF PollIntent
    <3>4. update # None => MoneyTold(update)
      BY <3>1, <3>3, PulledMoneyTold
    <3> QED BY <3>2, <3>4
  <2> QED BY <2>1, <2>2
<1> QED BY <1>1, <1>2, QuietStep

LEMMA StartMoneyStep ==
    ASSUME PInv, MInv, NEW k \in Caller, NEW c \in Checkout,
           StartCharge(k, c) \/ StartRelease(k, c)
    PROVE  MoneyStep
<1>1. PICK op, amount :
        /\ RetrieveForCall(k, c, op, amount)
        /\ \/ op = "charge" /\ amount \in ChargeAmounts
                 /\ (amount # None => ~ForbidsFraction(amount, Currency))
           \/ op = "release" /\ amount = order[c].amount_capturable
  BY DEF StartCharge, StartRelease
<1>2. PICK cl : cl = [op |-> op, c |-> c, amount |-> amount]
  OBVIOUS
<1>3. /\ call' = [call EXCEPT ![k] = cl]
      /\ order[c].status = "requires_capture"
      /\ UNCHANGED <<order, events, payment, polled, charged, released>>
  BY <1>1, <1>2 DEF RetrieveForCall, stripe
<1>4. c \in DOMAIN order
  BY <1>1, BoundExists DEF RetrieveForCall
<1>5. order[c].amount_capturable = Total /\ order[c].capture_method = "manual"
  BY <1>3, <1>4 DEF PInv, StripeInv, OrdersOK, OrderOK, MInv, AnnouncedOK
<1>6. CallOK(cl, order) /\ ReleaseOK(cl)
  BY <1>1, <1>2, <1>4, <1>5 DEF CallOK, ReleaseOK
<1>7. \A j \in Caller : call'[j] = call[j] \/ call'[j] = cl
  BY <1>3 DEF PInv, PluginInv
<1> QED BY <1>3, <1>6, <1>7, QuietStep

LEMMA FailCallMoneyStep ==
    ASSUME PInv, MInv, NEW k \in Caller, FailCall(k)
    PROVE  MoneyStep
<1>1. UNCHANGED <<order, events, payment, polled, charged, released>>
  BY DEF FailCall, stripe
<1>2. \A j \in Caller : call'[j] \in {None, call[j]}
  BY CallEnds DEF FailCall
<1> QED BY <1>1, <1>2, QuietStep

LEMMA FinishChargeMoneyStep ==
    ASSUME PInv, MInv, NEW k \in Caller, FinishCharge(k)
    PROVE  MoneyStep
<1> DEFINE fields(amount) == [amount_received |-> amount, amount_capturable |-> 0]
<1>1. PICK c : c = call[k].c
  OBVIOUS
<1>2. PICK asked : asked = call[k].amount
  OBVIOUS
<1>3. PICK amount : amount = ToCapture(c, asked)
  OBVIOUS
<1>4. /\ CaptureIntent(c, amount)
      /\ charged' = charged \/ ReportCharge(c, asked, order'[c].amount_received)
      /\ EndCall(k)
      /\ UNCHANGED <<delivered, payment, polled, released>>
  BY <1>1, <1>2, <1>3 DEF FinishCharge
<1>5. CallOK(call[k], order) /\ call[k] # None /\ call[k].op = "charge"
  BY DEF FinishCharge, PInv, PluginInv
<1>6. /\ c \in DOMAIN order /\ c \in Checkout /\ OrderOK(order[c])
      /\ asked \in ChargeAmounts
  BY <1>1, <1>2, <1>5 DEF CallOK, PInv, StripeInv, OrdersOK
<1>7. /\ order[c].status = "requires_capture" /\ order[c].amount_capturable = Total
      /\ amount \in 1..Total /\ Total \in Nat
  BY <1>4, <1>6, WholeIsNat DEF CaptureIntent, StatusIs, OrderOK
<1>8. PICK new : new = {IntentEvent(c, "payment_intent.succeeded")}
  OBVIOUS
<1>9. Moves(c, "succeeded", fields(amount), new)
  BY <1>4, <1>7, <1>8, Announces DEF CaptureIntent, FieldsOK, Moves, LockedType
<1>10. /\ \A d : d # c => Happened(d)' = Happened(d)
       /\ Happened(c) = {Fact("LOCKED", Whole)}
       /\ Happened(c)' = Happened(c) \cup
            {Fact("PAYMENT_CAPTURED", FromMinor(order'[c].amount_received, Currency))}
  BY <1>7, <1>9, MovesHappen
<1>11. order'[c].amount_received = amount
  BY <1>9, TransitionKeeps DEF Moves
<1>12. MInv'
  BY <1>4, <1>9, CallEnds, MovesKeepMInv
<1> DEFINE told == FromMinor(amount, Currency)
<1>13. told <= Whole
  BY <1>7, FromMinorByCode, Tables, CurrencyAssumption DEF Whole
<1>14. told \in {Whole} \cup Part
  <2>1. CASE asked = None
    BY <1>3, <1>7, <2>1 DEF ToCapture, Whole
  <2>2. CASE asked # None
    BY <1>3, <1>6, <2>2 DEF ToCapture, Part
  <2> QED BY <2>1, <2>2
<1>15. /\ \A d \in Checkout : d # c => Told(d)' = Told(d)
       /\ \/ Told(c)' = Told(c)
          \/ Told(c)' = Told(c) \cup {Fact("PAYMENT_CAPTURED", told)}
  <2>1. CASE charged' = charged
    BY <1>4, <2>1, ToldSame
  <2>2. CASE ReportCharge(c, asked, order'[c].amount_received)
    <3> DEFINE report == [asked |-> asked, told |-> told]
    <3>1. charged[c] = <<>> /\ released' = released
      BY <1>4, <1>6, <1>7 DEF PInv, ReportInv, ReportsOK
    <3>2. charged' = [charged EXCEPT ![c] = Append(charged[c], report)]
      BY <1>11, <2>2 DEF ReportCharge
    <3>3. charged'[c] = <<report>>
      BY <1>6, <3>1, <3>2 DEF PInv, ReportInv
    <3>4. ASSUME NEW d \in Checkout, d # c PROVE Told(d)' = Told(d)
      <4>1. charged'[d] = charged[d] /\ released'[d] = released[d]
        BY <3>1, <3>2, <3>4 DEF PInv, ReportInv
      <4> QED BY <4>1, ToldSame
    <3>5. Told(c)' = Told(c) \cup {Fact("PAYMENT_CAPTURED", told)}
      BY <3>1, <3>3 DEF Told
    <3> QED BY <3>4, <3>5
  <2> QED BY <1>4, <2>1, <2>2
<1>16. \A d \in Checkout : Known(d)' = Known(d)
  BY <1>4, KnownSame
<1>17. Money!Next
  BY <1>6, <1>10, <1>11, <1>13, <1>14, <1>15, <1>16, AbstractCapture
<1> QED BY <1>12, <1>17 DEF MoneyStep

LEMMA FinishReleaseMoneyStep ==
    ASSUME PInv, MInv, NEW k \in Caller, FinishRelease(k)
    PROVE  MoneyStep
<1> DEFINE fields == [amount_capturable |-> 0]
<1>1. PICK c : c = call[k].c
  OBVIOUS
<1>2. CallOK(call[k], order) /\ call[k] # None /\ call[k].op = "release"
  BY DEF FinishRelease, PInv, PluginInv
<1>3. /\ c \in DOMAIN order /\ c \in Checkout
      /\ order[c].capture_method = "manual"
  BY <1>1, <1>2 DEF CallOK, PInv, StripeInv, OrdersOK, MInv, ReleaseOK
<1>4. /\ CancelIntent(c) /\ EndCall(k)
      /\ \/ released' = released
         \/ \E freed : released' = [released EXCEPT ![c] = @ + freed]
      /\ UNCHANGED <<delivered, payment, polled, charged>>
  BY <1>1 DEF FinishRelease
<1>5. PICK new : new = {IntentEvent(c, "payment_intent.canceled")}
  OBVIOUS
<1>6. Moves(c, "canceled", fields, new)
  BY <1>4, <1>5, Announces DEF CancelIntent, FieldsOK, Moves, LockedType
<1>7. /\ \A d : d # c => Happened(d)' = Happened(d)
      /\ Happened(c) \subseteq {Fact("LOCKED", Whole)}
      /\ Happened(c)' = Happened(c) \cup {Fact("LOCK_RELEASED", 0)}
  BY <1>3, <1>6, MovesHappen DEF When
<1>8. MInv'
  BY <1>4, <1>6, CallEnds, MovesKeepMInv
<1>9. order[c].status # "canceled"
  BY <1>6, TransitionKeeps DEF Moves
<1>10. released[c] = 0
  BY <1>3, <1>9 DEF PInv, ReportInv, ReportsOK
<1>11. /\ \A d \in Checkout : d # c => released'[d] = released[d]
  BY <1>4 DEF PInv, ReportInv
<1>12. /\ \A d \in Checkout : d # c => Told(d)' = Told(d)
       /\ \/ Told(c)' = Told(c)
          \/ Told(c)' = Told(c) \cup {Fact("LOCK_RELEASED", 0)}
  <2>1. ASSUME NEW d \in Checkout, d # c PROVE Told(d)' = Told(d)
    BY <1>4, <1>11, <2>1, ToldSame
  <2>2. \/ Told(c)' = Told(c)
        \/ Told(c)' = Told(c) \cup {Fact("LOCK_RELEASED", 0)}
    BY <1>4, <1>10 DEF Told, When
  <2> QED BY <2>1, <2>2
<1>13. \A d \in Checkout : Known(d)' = Known(d)
  BY <1>4, KnownSame
<1>14. Money!Next
  BY <1>3, <1>7, <1>12, <1>13, AbstractRelease
<1> QED BY <1>8, <1>14 DEF MoneyStep

-----------------------------------------------------------------------------
(* The theorem. *)

LEMMA MoneyInit ==
    ASSUME Init
    PROVE  MInv /\ Money!Init
<1>1. MInv
  BY DEF Init, MInv, NewPayment, ReleaseOK
<1>2. \A c \in Checkout : Happened(c) = {} /\ Known(c) = {} /\ Told(c) = {}
  BY DEF Init, Happened, Known, Told, When, Locked, StatusIs, Exists, NewPayment
<1> QED BY <1>1, <1>2 DEF Money!Init

LEMMA MoneyNext ==
    ASSUME PInv, MInv, [Next]_vars
    PROVE  MoneyStep
<1>1. CASE UNCHANGED vars
  <2>1. UNCHANGED <<order, events, payment, polled, call, charged, released>>
    BY <1>1 DEF vars, stripe, plugin
  <2> QED BY <2>1, QuietStep
<1>2. CASE Next
  BY <1>2, StripeMoneyStep, PrepareMoneyStep, SavePreparedMoneyStep, PollMoneyStep,
     StartMoneyStep, FinishChargeMoneyStep, FinishReleaseMoneyStep, FailCallMoneyStep,
     ApplyPolledMoneyStep, CallbackMoneyStep DEF Next
<1> QED BY <1>1, <1>2

\* Every behaviour of webhooks, polls and calls, in any order and however late,
\* is one of PaymentMoney: money moves once per checkout, and the payment and
\* the callers are told only of what moved.
THEOREM ImplementsMoney == Spec => ImplementsPaymentMoney
<1>1. Init => MInv /\ Money!Init
  BY MoneyInit
<1>2. PInv /\ MInv /\ [Next]_vars => MInv' /\ [Money!Next]_(Money!vars)
  BY MoneyNext DEF MoneyStep
<1> QED BY <1>1, <1>2, PInvAlways, PTL DEF Spec, ImplementsPaymentMoney, Money!Spec
=============================================================================
