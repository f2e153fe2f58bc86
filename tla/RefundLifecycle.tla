--------------------------- MODULE RefundLifecycle ---------------------------
(* The refunds of one captured payment: Stripe's side of each refund, the      *)
(* webhooks about it in any order and number, and the payment the plugin keeps *)
(* through start_refund(), cancel_refund() and handle_callback().              *)
(*                                                                             *)
(* Every local step is one critical section: the README asks adapters to       *)
(* serialize the load/map/apply/save and the cancellation/retry lifecycle per  *)
(* payment.  RefundStaleMapping drops that discipline.                         *)
EXTENDS RefundMapping, FiniteSets

CONSTANTS
    Refund,      \* refund ids, numbered in the order Stripe creates them
    Legacy,      \* refunds an earlier release may have recorded as failed
    MaxRepeats   \* bound: Event objects beyond the first per refund and status

ASSUME RefundAssumption == Refund \subseteq Nat
ASSUME LegacyAssumption == Legacy \subseteq Refund
ASSUME MaxRepeatsAssumption == MaxRepeats \in Nat

VARIABLES
    refund,     \* Stripe: the status of each refund, "none" before creation
    events,     \* Stripe: the events emitted so far
    delivered,  \* the events that reached the webhook at least once
    payment     \* the local payment record

vars == <<refund, events, delivered, payment>>

Event == [refund : Refund, status : RefundStatus, n : 1..MaxRepeats + 1]

ProviderKey ==
    {SlotKey, LegacyKey} \cup {TerminalKey(r) : r \in Refund}
                         \cup {ConfirmationKey(r) : r \in Refund}

WellTyped(data) ==
    /\ DOMAIN data \subseteq ProviderKey
    /\ SlotKey \in DOMAIN data => data[SlotKey] \in Refund
    /\ LegacyKey \in DOMAIN data => data[LegacyKey] \in SUBSET Legacy
    /\ \A r \in Refund :
         /\ TerminalKey(r) \in DOMAIN data => data[TerminalKey(r)] \in DeadStatus
         /\ ConfirmationKey(r) \in DOMAIN data
              => data[ConfirmationKey(r)] \in BOOLEAN

\* Type invariant: Stripe's refunds, the event log and the payment record have
\* the shapes processor.py and core give them.
TypeOK ==
    /\ refund \in [Refund -> RefundStatus \cup {"none"}]
    /\ events \subseteq Event
    /\ delivered \subseteq events
    /\ DOMAIN payment = {"status", "provider_data", "applied_event_ids"}
    /\ payment.status \in {"PAID", "REFUND_STARTED"}
    /\ WellTyped(payment.provider_data)
    /\ payment.applied_event_ids \subseteq delivered

-----------------------------------------------------------------------------
(* Stripe. *)

\* Stripe emits the first event about a refund reaching a status.
Emit(r, status) ==
    events' = events \cup {[refund |-> r, status |-> status, n |-> 1]}

\* Stripe numbers the refunds it creates in order.
Fresh(r) ==
    /\ refund[r] = "none"
    /\ \A q \in Refund : q < r => refund[q] # "none"

\* A refund comes to exist, in flight or, for most cards, settled at once.
Create(r, status) ==
    /\ Fresh(r)
    /\ status \in InFlightStatus \cup {"succeeded"}
    /\ refund' = [refund EXCEPT ![r] = status]
    /\ Emit(r, status)

\* The refund moves on at Stripe.  requires_action -> canceled is also what an
\* API cancellation does when its response is lost: cancel_refund() then
\* returns False, or the process dies, and nothing local changes.
StripeMoves(r, status) ==
    /\ status \in RefundTransitions(refund[r])
    /\ refund' = [refund EXCEPT ![r] = status]
    /\ Emit(r, status)
    /\ UNCHANGED <<delivered, payment>>

\* Another Event object in the same status: metadata or the ARN of the refund
\* changed, or Stripe generated two events for one occurrence.
StripeRepeats(r) ==
    /\ refund[r] # "none"
    /\ Cardinality({e \in events : e.n > 1}) < MaxRepeats
    /\ \E n \in 2..MaxRepeats + 1 :
         /\ [refund |-> r, status |-> refund[r], n |-> n - 1] \in events
         /\ [refund |-> r, status |-> refund[r], n |-> n] \notin events
         /\ events' = events \cup {[refund |-> r, status |-> refund[r], n |-> n]}
    /\ UNCHANGED <<refund, delivered, payment>>

-----------------------------------------------------------------------------
(* The plugin. *)

\* PaymentFlow.start_refund(): Stripe creates the refund, core applies
\* REFUND_REQUESTED with the id start_refund() returned.
StartRefund(r, status) ==
    /\ payment.status = "PAID"
    /\ Create(r, status)
    /\ payment' = ApplyRefundEvent(payment, "REFUND_REQUESTED",
                                   StartRefundPatch(r))
    /\ UNCHANGED delivered

\* A refund the payment has no record of: from the Dashboard, one Stripe made
\* for an expired authorization, or a start_refund() whose response was lost
\* or whose process died before the save.
ForeignRefund(r, status) ==
    /\ Create(r, status)
    /\ UNCHANGED <<delivered, payment>>

\* cancel_refund(): only a refund waiting for customer action can be canceled
\* through the API; otherwise it returns False and nothing changes.
ApiCancels(r) ==
    /\ HoldsSlot(payment.provider_data, r)
    /\ refund[r] = "requires_action"
    /\ refund' = [refund EXCEPT ![r] = "canceled"]
    /\ Emit(r, "canceled")
    /\ UNCHANGED delivered

\* A caller that uses the processor directly and saves the payment.
CancelRefund(r) ==
    /\ ApiCancels(r)
    /\ payment' = [payment EXCEPT !.provider_data = CancelRefundData(@, r)]

\* PaymentFlow.cancel_refund(): core also applies REFUND_CANCELLED.
FlowCancelRefund(r) ==
    /\ ApiCancels(r)
    /\ payment' = ApplyRefundEvent(
                    [payment EXCEPT !.provider_data = CancelRefundData(@, r)],
                    "REFUND_CANCELLED", EmptyData)

\* PaymentFlow.handle_callback(): map, apply, save, in one critical section.
Callback(e) ==
    /\ e \in events
    /\ delivered' = delivered \cup {e}
    /\ payment' = IF IgnoresRefundEvent(payment.provider_data, e)
                  THEN payment
                  ELSE ApplyRefundUpdate(payment,
                                         RefundUpdate(payment.provider_data, e))
    /\ UNCHANGED <<refund, events>>

-----------------------------------------------------------------------------
FreshPayment ==
    [status |-> "PAID", provider_data |-> EmptyData, applied_event_ids |-> {}]

\* A payment saved by an earlier release, which kept the outcomes of failed
\* refunds in one nested dictionary.
UpgradedPayment(r) ==
    [FreshPayment EXCEPT !.provider_data =
        [k \in {SlotKey, LegacyKey} |-> IF k = SlotKey THEN r ELSE Legacy]]

Init ==
    /\ \/ /\ refund = [r \in Refund |-> "none"]
          /\ events = {}
          /\ payment = FreshPayment
       \/ /\ refund = [r \in Refund |-> IF r \in Legacy THEN "failed" ELSE "none"]
          /\ events = [refund : Legacy, status : {"pending", "failed"}, n : {1}]
          /\ \E r \in Legacy : payment = UpgradedPayment(r)
    /\ delivered = {}

Next ==
    \/ \E r \in Refund, status \in RefundStatus :
         \/ StartRefund(r, status)
         \/ ForeignRefund(r, status)
         \/ StripeMoves(r, status)
    \/ \E r \in Refund :
         \/ CancelRefund(r)
         \/ FlowCancelRefund(r)
         \/ StripeRepeats(r)
    \/ \E e \in events : Callback(e)

Spec == Init /\ [][Next]_vars

\* Stripe retries a delivery until the endpoint answers, so an event that was
\* never delivered eventually is.  Nothing else has to happen: redeliveries,
\* Stripe's own moves and the application's calls are free not to.
FirstDelivery(e) == e \notin delivered /\ Callback(e)

FairSpec ==
    /\ Spec
    /\ \A e \in Event : WF_vars(FirstDelivery(e))

-----------------------------------------------------------------------------
(* Properties. *)

Data == payment.provider_data

\* A terminal outcome of the refund is on the payment, in either format, whether
\* or not the code reads it there.
Recorded(r) ==
    TerminalKey(r) \in DOMAIN Data \/ (LegacyKey \in DOMAIN Data /\ r \in Data[LegacyKey])

AttemptOpen == payment.status = "REFUND_STARTED"

\* A terminal record is true: the plugin only shuts out a refund that Stripe
\* gave up on, and remembers the outcome Stripe reached.  Success is not final
\* (a bank can return the funds), so a refund that moved money is never shut
\* out, whatever the order in which its events and a cancellation arrive.
TerminalRecordIsTrue ==
    \A r \in Refund :
        /\ Recorded(r) => refund[r] \in DeadStatus
        /\ TerminalKey(r) \in DOMAIN Data => Data[TerminalKey(r)] = refund[r]

\* An attempt that is open on a refund already recorded as dead can still be
\* closed: the cancellation awaits its first webhook.  cancel_refund() records
\* the terminal outcome before that webhook, which would otherwise be dropped
\* as late and leave the payment in REFUND_STARTED for good.
OpenAttemptNotStuck ==
    \A r \in Refund :
        AttemptOpen /\ HoldsSlot(Data, r) /\ Recorded(r)
            => ConfirmationPending(Data, r)

\* REFUND_CANCELLED is applied from at most one webhook per refund, although
\* Stripe emits several Event objects, with ids of their own, about one failure
\* and core only recognises a repeated id.
CancelledOnce ==
    \A e1, e2 \in payment.applied_event_ids :
        /\ e1.refund = e2.refund
        /\ e1.status \in DeadStatus /\ e2.status \in DeadStatus
        => e1 = e2

\* An event that tells the refund's status is still to be delivered.
ToCome(r, status) ==
    \E e \in events \ delivered : e.refund = r /\ e.status = status

\* No outcome is lost: a refund that died at Stripe is recorded and its attempt
\* closed, and one that succeeded is confirmed or died since, unless an event that
\* says so is still to be delivered - whatever refund the slot held meanwhile, and
\* although webhooks that come late, twice or after a cancellation are dropped.
NoOutcomeLost ==
    \A r \in Refund :
        /\ refund[r] \in DeadStatus =>
             \/ Recorded(r) /\ ~(AttemptOpen /\ HoldsSlot(Data, r))
             \/ ToCome(r, refund[r])
        /\ refund[r] = "succeeded" =>
             \/ Recorded(r)
             \/ \E e \in payment.applied_event_ids : e.refund = r /\ e.status = "succeeded"
             \/ ToCome(r, "succeeded")

\* The inductive strengthening of the invariants above.  Webhooks tell the truth
\* about dead refunds, which stay dead; only a recorded refund is flagged; and a
\* refund whose cancellation was applied has nothing left to confirm.
EventsAreTrue ==
    \A e \in events : e.status \in DeadStatus => refund[e.refund] = e.status

FlaggedIsRecorded ==
    \A r \in Refund : ConfirmationPending(Data, r) => Recorded(r)

AppliedIsRecorded ==
    \A e \in payment.applied_event_ids :
        e.status \in DeadStatus
            => Recorded(e.refund) /\ ~ConfirmationPending(Data, e.refund)

IInv ==
    /\ TypeOK
    /\ EventsAreTrue
    /\ TerminalRecordIsTrue
    /\ FlaggedIsRecorded
    /\ AppliedIsRecorded
    /\ OpenAttemptNotStuck
    /\ CancelledOnce

\* The webhooks, the cancellations and the retries together behave as the
\* abstract refund attempt: a dead refund never becomes current again, never
\* reopens an attempt and never resolves a newer one.
Attempt == INSTANCE RefundAttempt WITH
    dead    <- {r \in Refund : Recorded(r)},
    current <- {r \in Refund : HoldsSlot(Data, r)},
    open    <- AttemptOpen

ImplementsRefundAttempt == Attempt!Spec

\* A terminal outcome is never forgotten: core's shallow merge of an update,
\* even one mapped before another refund's outcome was saved, keeps it.
TerminalRecordsKept ==
    [][\A r \in Refund : Recorded(r) => Recorded(r)']_vars

\* An attempt open on a refund that died at Stripe closes, or moves on to
\* another refund, once Stripe's events are delivered.
DeadAttemptCloses ==
    \A r \in Refund :
        AttemptOpen /\ HoldsSlot(Data, r) /\ refund[r] \in DeadStatus
            ~> ~AttemptOpen \/ ~HoldsSlot(Data, r)

\* A refund that died at Stripe is eventually recorded as dead, and a refund
\* that succeeded is eventually confirmed unless it died before its success
\* was seen: no outcome is lost, whatever refund the slot holds meanwhile.
OutcomesReachPayment ==
    \A r \in Refund :
        /\ refund[r] \in DeadStatus ~> Recorded(r)
        /\ refund[r] = "succeeded"
             ~> \/ Recorded(r)
                \/ \E e \in payment.applied_event_ids :
                      e.refund = r /\ e.status = "succeeded"

-----------------------------------------------------------------------------
(* What the documentation says, and the code does not do. *)

\* SPEC.md: duplicate deliveries and unordered arrival are handled by core's
\* dedup and the stateless mapping.  So once every refund has settled at Stripe
\* and every event was delivered, no attempt should be open.
SettledWhenDelivered ==
    (/\ delivered = events
     /\ \A r \in Refund : refund[r] \notin InFlightStatus)
    => ~AttemptOpen

\* start_refund() and SPEC.md: the slot holds the latest refund.
SlotHoldsLatestRefund ==
    [][\A r, q \in Refund :
         HoldsSlot(Data, r) /\ HoldsSlot(Data, q)' => r <= q]_vars
=============================================================================
