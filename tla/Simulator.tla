------------------------------- MODULE Simulator -------------------------------
(* The bundled Stripe simulator serving one order: its API handlers, the fake  *)
(* checkout page and the ops endpoint, running concurrently on one event loop. *)
(*                                                                             *)
(* A handler runs from one await to the next without interruption.  Capture    *)
(* and cancel check the order, await the form, and act on what they read;      *)
(* every other handler does all its reading and writing in one such stretch.   *)
(* Webhooks are rendered before they are sent, so what a stretch emits belongs *)
(* to it.  Session and review events are StripeCheckout's and PaymentLifecycle's. *)
EXTENDS StripeCheckout, RefundMapping, Sequences, Functions

CONSTANTS
    Amount,   \* the order's amount in minor units
    Request,  \* bound: the capture and cancel requests, each made once
    Refund,   \* bound: refund ids, numbered in the order of their creation
    Ops       \* the money-moving actions of the ops endpoint that are used

OpsAction == {"expire_auth", "fail_delayed", "settle_delayed"}

ASSUME AmountAssumption == Amount \in Nat \ {0}
ASSUME RefundAssumption == Refund \subseteq Nat
ASSUME OpsAssumption == Ops \subseteq OpsAction
ASSUME NoRefundAssumption == None \notin [amount : Int, status : RefundStatus]

VARIABLES
    order,     \* the stored order
    refund,    \* the stored refunds, None before creation
    request,   \* what a capture or cancel request read, op "none" before and
               \* "done" after
    outcomes,  \* the payment_intent.succeeded and .canceled events, in order
    told       \* the statuses in the events of each refund, in order

vars == <<order, refund, request, outcomes, told>>

Init ==
    /\ \E capture_method \in {"automatic", "manual"} :
         LET new == NewOrder(None, capture_method) IN
           order = [f \in DOMAIN new \cup {"refund_mode"} |->
                       IF f = "refund_mode" THEN "" ELSE new[f]]
    /\ refund = [r \in Refund |-> None]
    /\ request = [q \in Request |-> [op |-> "none", amount_capturable |-> 0]]
    /\ outcomes = <<>>
    /\ told = [r \in Refund |-> <<>>]

-----------------------------------------------------------------------------
(* Storage and state machine. *)

\* update_order()
Updated(fields) ==
    [f \in DOMAIN order |-> IF f \in DOMAIN fields THEN fields[f] ELSE order[f]]

Outcome(o) == [status |-> o.status, amount |-> o.amount_received]

\* Mutated form: the state machine is not asked.
UpdateThenTransition_Unchecked(fields, status) ==
    /\ order' = [Updated(fields) EXCEPT !.status = status]
    /\ outcomes' = IF status \in {"succeeded", "canceled"}
                   THEN Append(outcomes, Outcome(order')) ELSE outcomes

\* update_order() and then transition(), which raises on an illegal change: the
\* update stays, and nothing is emitted.
UpdateThenTransition(fields, status) ==
    IF status \in Transitions(order.status)
    THEN /\ order' = [Updated(fields) EXCEPT !.status = status]
         /\ outcomes' = IF status \in {"succeeded", "canceled"}
                        THEN Append(outcomes, Outcome(order')) ELSE outcomes
    ELSE order' = Updated(fields) /\ UNCHANGED outcomes

-----------------------------------------------------------------------------
(* The checkout page. *)

\* A page that was already processed answers 400.
Submit(fields, status) ==
    /\ order.status \in {"open", "declined"}
    /\ UpdateThenTransition(fields, status)
    /\ UNCHANGED <<refund, request, told>>

Decline == Submit([has_payment_intent |-> TRUE], "declined")
PayDelayed == Submit([has_payment_intent |-> TRUE], "processing")
Pay ==
    IF order.capture_method = "manual"
    THEN Submit([has_payment_intent |-> TRUE, amount_capturable |-> Amount],
                "requires_capture")
    ELSE Submit([has_payment_intent |-> TRUE, amount_received |-> Amount],
                "succeeded")

-----------------------------------------------------------------------------
(* The API. *)

ExpireSession ==
    /\ order.status \in {"open", "declined"}
    /\ UpdateThenTransition(<<>>, "expired")
    /\ UNCHANGED <<refund, request, told>>

\* The order is read and its status checked; the form is still to come.
Begin(q, op, statuses) ==
    /\ request[q].op = "none"
    /\ order.status \in statuses
    /\ request' = [request EXCEPT ![q] =
                     [op |-> op, amount_capturable |-> order.amount_capturable]]
    /\ UNCHANGED <<order, refund, outcomes, told>>

BeginCapture(q) == Begin(q, "capture", {"requires_capture"})
BeginCancel(q) == Begin(q, "cancel", {"requires_capture", "processing"})

Awaits(q, op) == request[q].op = op
End(q) == request' = [request EXCEPT ![q] = [op |-> "done", amount_capturable |-> 0]]

\* Mutated form: the bound is off by one.
CaptureAmounts_OffByOne(q) == 1..request[q].amount_capturable + 1

\* Any other amount_to_capture is answered 400.
CaptureAmounts(q) == 1..request[q].amount_capturable

FinishCapture(q) ==
    /\ Awaits(q, "capture")
    /\ \E amount \in CaptureAmounts(q) :
         UpdateThenTransition([amount_received |-> amount, amount_capturable |-> 0],
                              "succeeded")
    /\ End(q)
    /\ UNCHANGED <<refund, told>>

FinishCancel(q) ==
    /\ Awaits(q, "cancel")
    /\ UpdateThenTransition([amount_capturable |-> 0], "canceled")
    /\ End(q)
    /\ UNCHANGED <<refund, told>>

Live == {r \in Refund : refund[r] # None /\ refund[r].status \notin DeadStatus}
TotalOf(refunds) == SumFunctionOnSet([r \in refunds |-> refund[r].amount], refunds)
LiveTotal == TotalOf(Live)

\* Mutated form: a refund awaiting the customer is not counted.
AlreadyRefunded_SettledOnly ==
    TotalOf({r \in Live : refund[r].status # "requires_action"})

AlreadyRefunded == LiveTotal

\* Tell the statuses a refund went through, the last one stored.
SetRefund(r, amount, statuses) ==
    /\ refund' = [refund EXCEPT ![r] =
                    [amount |-> amount, status |-> statuses[Len(statuses)]]]
    /\ told' = [told EXCEPT ![r] = @ \o statuses]

\* Card refunds settle within the request, after the pending event.
CreateRefund(r) ==
    /\ refund[r] = None /\ \A q \in Refund : q < r => refund[q] # None
    /\ order.status = "succeeded"
    /\ \E amount \in 1..order.amount_received - AlreadyRefunded :
         SetRefund(r, amount, IF order.refund_mode = "requires_action"
                              THEN <<"requires_action">>
                              ELSE <<"pending", "succeeded">>)
    /\ UNCHANGED <<order, request, outcomes>>

\* Mutated form: a settled refund can be canceled.
CancelRefund_AnyLive(r) ==
    /\ r \in Live
    /\ SetRefund(r, refund[r].amount, <<"canceled">>)
    /\ UNCHANGED <<order, request, outcomes>>

CancelRefund(r) ==
    /\ r \in Live /\ refund[r].status = "requires_action"
    /\ SetRefund(r, refund[r].amount, <<"canceled">>)
    /\ UNCHANGED <<order, request, outcomes>>

-----------------------------------------------------------------------------
(* The ops endpoint: whatever the order's status, the state machine decides. *)

ExpireAuth ==
    /\ "expire_auth" \in Ops
    /\ UpdateThenTransition([amount_capturable |-> 0], "canceled")
    /\ UNCHANGED <<refund, request, told>>

FailDelayed ==
    /\ "fail_delayed" \in Ops
    /\ UpdateThenTransition(<<>>, "declined")
    /\ UNCHANGED <<refund, request, told>>

SettleDelayed ==
    /\ "settle_delayed" \in Ops
    /\ UpdateThenTransition([amount_received |-> Amount], "succeeded")
    /\ UNCHANGED <<refund, request, told>>

FailRefund(r) ==
    /\ refund[r] # None
    /\ "failed" \in RefundTransitions(refund[r].status)
    /\ SetRefund(r, refund[r].amount, <<"failed">>)
    /\ UNCHANGED <<order, request, outcomes>>

SetRefundMode ==
    /\ \E mode \in {"", "requires_action"} :
         order' = [order EXCEPT !.refund_mode = mode]
    /\ UNCHANGED <<refund, request, outcomes, told>>

Next ==
    \/ Decline \/ PayDelayed \/ Pay
    \/ ExpireSession
    \/ \E q \in Request :
         BeginCapture(q) \/ FinishCapture(q) \/ BeginCancel(q) \/ FinishCancel(q)
    \/ \E r \in Refund : CreateRefund(r) \/ CancelRefund(r) \/ FailRefund(r)
    \/ ExpireAuth \/ FailDelayed \/ SettleDelayed
    \/ SetRefundMode

Spec == Init /\ [][Next]_vars

-----------------------------------------------------------------------------
(* Properties. *)

\* Type invariant.
TypeOK ==
    /\ order.status \in CheckoutStatus
    /\ order.capture_method \in {"automatic", "manual"}
    /\ order.has_payment_intent \in BOOLEAN
    /\ order.amount_capturable \in {0, Amount}
    /\ order.amount_received \in 0..Amount
    /\ order.refund_mode \in {"", "requires_action"}
    /\ request \in [Request -> [op : {"none", "capture", "cancel", "done"},
                                amount_capturable : {0, Amount}]]
    /\ \A r \in Refund : refund[r] # None =>
         refund[r].amount \in 1..Amount /\ refund[r].status \in RefundStatus
    /\ \A r \in Refund : \A i \in DOMAIN told[r] : told[r][i] \in RefundStatus

\* The money moves at most once: whatever captures, cancellations, expiries and
\* payments pass their status checks before any of them acts, one outcome is
\* announced, and it is the one the order keeps.
OneMoneyOutcome ==
    /\ Len(outcomes) <= 1
    /\ order.status \in {"succeeded", "canceled"} <=> outcomes # <<>>
    /\ outcomes # <<>> => outcomes[1].status = order.status

\* Refunds that were not canceled or failed never return more than the buyer
\* authorized, however captures race and amounts are overwritten.
RefundsWithinAuthorization == LiveTotal <= Amount

\* Although handlers write refund statuses themselves, the events of a refund
\* tell a legal life of it, in order, and end with the stored status.
RefundEventsLegal ==
    \A r \in Refund :
        /\ refund[r] = None <=> told[r] = <<>>
        /\ refund[r] # None =>
             told[r][1] \in InFlightStatus /\ told[r][Len(told[r])] = refund[r].status
        /\ \A i \in 2..Len(told[r]) : told[r][i] \in RefundTransitions(told[r][i - 1])

-----------------------------------------------------------------------------
(* What the documentation says, and the code does not do. *)

\* SPEC.md: multiple partial refunds are allowed up to the captured, unrefunded
\* amount.  So they never return more than payment_intent.succeeded announced.
RefundsWithinCapture ==
    \A i \in DOMAIN outcomes :
        outcomes[i].status = "succeeded" => LiveTotal <= outcomes[i].amount
=============================================================================
