---------------------------- MODULE RefundMapping ----------------------------
(* The pure half of the refund code of StripeProcessor: how a refund payload   *)
(* and the payment's provider_data map to a PaymentUpdate, and what            *)
(* start_refund() and cancel_refund() leave in provider_data.                  *)
(*                                                                             *)
(* A refund event is a record [refund, status, n]: the n-th Event object       *)
(* Stripe emitted about this refund in this status.  The record itself is the  *)
(* event's identity, so two events about one occurrence are distinct.          *)
EXTENDS GetpaidCore, Integers

InFlightStatus == {"pending", "requires_action"}
DeadStatus == {"failed", "canceled"}
RefundStatus == InFlightStatus \cup {"succeeded"} \cup DeadStatus

\* REFUND_TRANSITIONS
RefundTransitions(status) ==
    CASE status = "pending" -> {"succeeded", "failed", "canceled"}
      [] status = "requires_action" -> {"succeeded", "canceled"}
      [] status = "succeeded" -> {"failed"}
      [] OTHER -> {}

-----------------------------------------------------------------------------
(* The keys of provider_data the refund code reads and writes. *)

SlotKey == <<"refund_id">>
LegacyKey == <<"refund_terminal_statuses">>
TerminalKey(r) == <<"refund_terminal", r>>
ConfirmationKey(r) == <<"refund_cancel_unconfirmed", r>>

HoldsSlot(data, r) == SlotKey \in DOMAIN data /\ data[SlotKey] = r

\* Mutated form: an earlier release's dictionary is no longer read.
RecordedTerminal_NewKeysOnly(data, r) == TerminalKey(r) \in DOMAIN data

\* The refund's terminal outcome is in the original nested dictionary or under
\* a key of its own.
RecordedTerminal(data, r) ==
    \/ LegacyKey \in DOMAIN data /\ r \in data[LegacyKey]
    \/ TerminalKey(r) \in DOMAIN data

ConfirmationPending(data, r) ==
    ConfirmationKey(r) \in DOMAIN data /\ data[ConfirmationKey(r)]

-----------------------------------------------------------------------------
(* _map_refund_event(): the guard that drops an event, and the update. *)

\* Mutated form: the slot is not consulted, so the webhook of an earlier
\* cancellation resolves the retry.
ConfirmsCurrentCancellation_AnySlot(data, e) ==
    ConfirmationPending(data, e.refund) /\ e.status \in DeadStatus

ConfirmsCurrentCancellation(data, e) ==
    /\ ConfirmationPending(data, e.refund)
    /\ HoldsSlot(data, e.refund)
    /\ e.status \in DeadStatus

\* Mutated form: every event of a recorded refund is late.
IgnoresRefundEvent_NoConfirmation(data, e) ==
    RecordedTerminal(data, e.refund) \/ e.status \notin RefundStatus

\* Mutated form: events of any refund but the current one are dropped.
IgnoresRefundEvent_CurrentOnly(data, e) ==
    \/ RecordedTerminal(data, e.refund) /\ ~ConfirmsCurrentCancellation(data, e)
    \/ SlotKey \in DOMAIN data /\ data[SlotKey] # e.refund

IgnoresRefundEvent(data, e) ==
    \/ /\ RecordedTerminal(data, e.refund)
       /\ ~ConfirmsCurrentCancellation(data, e)
    \/ e.status \notin RefundStatus

RefundPaymentEvent(status) ==
    CASE status \in InFlightStatus -> "REFUND_REQUESTED"
      [] status = "succeeded" -> "REFUND_CONFIRMED"
      [] status \in DeadStatus -> "REFUND_CANCELLED"

\* Mutated form: success is taken for a terminal outcome.
PatchKeys_SuccessIsFinal(data, e) ==
    {SlotKey} \cup {k \in {TerminalKey(e.refund)} : e.status \notin InFlightStatus}

\* Mutated form: the confirmation does not clear the flag.
PatchKeys_KeepsFlag(data, e) ==
    {SlotKey} \cup {k \in {TerminalKey(e.refund)} : e.status \in DeadStatus}

PatchKeys(data, e) ==
    {SlotKey}
      \cup {k \in {TerminalKey(e.refund)} : e.status \in DeadStatus}
      \cup {k \in {ConfirmationKey(e.refund)} :
              e.status \in DeadStatus /\ ConfirmationPending(data, e.refund)}

\* Mutated form: the original nested dictionary, replaced as a whole.
RefundPatch_Nested(data, e) ==
    [k \in {SlotKey, LegacyKey} |->
        IF k = SlotKey THEN e.refund
        ELSE (IF LegacyKey \in DOMAIN data THEN data[LegacyKey] ELSE {})
               \cup {r \in {e.refund} : e.status \in DeadStatus}]

RefundPatch(data, e) ==
    [k \in PatchKeys(data, e) |->
        CASE k = SlotKey -> e.refund
          [] k = TerminalKey(e.refund) -> e.status
          [] OTHER -> FALSE]

RefundUpdate(data, e) ==
    [payment_event     |-> RefundPaymentEvent(e.status),
     provider_event_id |-> e,
     provider_data     |-> RefundPatch(data, e)]

-----------------------------------------------------------------------------
(* What the two refund operations store. *)

\* start_refund() returns the new id for core to merge: the slot holds the
\* latest refund.
StartRefundPatch(r) == [k \in {SlotKey} |-> r]

\* Mutated form: the first webhook is not let through.
CancelRefundData_NoFlag(data, r) ==
    ShallowMerge(data, [k \in {TerminalKey(r)} |-> "canceled"])

\* cancel_refund() keeps the terminal identity before a retry, and flags that
\* the first terminal webhook has still to be let through.
CancelRefundData(data, r) ==
    ShallowMerge(data,
        [k \in {TerminalKey(r), ConfirmationKey(r)} |->
            IF k = TerminalKey(r) THEN "canceled" ELSE TRUE])
=============================================================================
