----------------------------- MODULE PaymentMoney -----------------------------
(* What a payment promises about the money of its checkouts, without Stripe's *)
(* statuses, webhooks, polls or calls.  A checkout's money is locked, captured *)
(* or released, and each of these is a fact that stays.  The payment learns    *)
(* facts after they happened, in any order and however late; a caller is told  *)
(* of a capture or a release only by the step that makes it happen.            *)
EXTENDS Integers

CONSTANTS
    Checkout,
    Whole,     \* the amount of every checkout
    Part       \* the amounts a part of it is captured as

VARIABLES
    happened,  \* per checkout, the facts
    known,     \* per checkout, the facts applied to the payment
    told       \* per checkout, the facts reported to callers

vars == <<happened, known, told>>

Fact(what, amount) == [what |-> what, amount |-> amount]
MoneyEvent == {"LOCKED", "PAYMENT_CAPTURED", "LOCK_RELEASED"}

Init ==
    /\ happened = [c \in Checkout |-> {}]
    /\ known = [c \in Checkout |-> {}]
    /\ told = [c \in Checkout |-> {}]

Happen(c, fact) == happened' = [happened EXCEPT ![c] = @ \cup {fact}]
MayTell(c, fact) == told' \in {told, [told EXCEPT ![c] = @ \cup {fact}]}

\* An authorization is of the whole amount, and comes before anything else.
Lock(c) ==
    /\ happened[c] = {}
    /\ Happen(c, Fact("LOCKED", Whole))
    /\ UNCHANGED <<known, told>>

\* Nothing was captured or released yet.
Unsettled(c) == happened[c] \subseteq {Fact("LOCKED", Whole)}

\* Once, for good: a part of what was locked, or the whole without a lock.
Capture(c) ==
    /\ Unsettled(c)
    /\ \E amount \in {Whole} \cup Part :
         /\ amount <= Whole
         /\ happened[c] = {} => amount = Whole
         /\ Happen(c, Fact("PAYMENT_CAPTURED", amount))
         /\ MayTell(c, Fact("PAYMENT_CAPTURED", amount))
    /\ UNCHANGED known

Release(c) ==
    /\ Unsettled(c)
    /\ Happen(c, Fact("LOCK_RELEASED", 0))
    /\ MayTell(c, Fact("LOCK_RELEASED", 0))
    /\ UNCHANGED known

Learn(c) ==
    /\ \E fact \in happened[c] : known' = [known EXCEPT ![c] = @ \cup {fact}]
    /\ UNCHANGED <<happened, told>>

Next == \E c \in Checkout : Lock(c) \/ Capture(c) \/ Release(c) \/ Learn(c)

Spec == Init /\ [][Next]_vars
=============================================================================
