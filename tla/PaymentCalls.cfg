\* One checkout, two concurrent callers, two attempts of the buyer, a review.
\* 0.0250 KWD is charged as 30 minor units, a part of 0.0160 KWD as 20.
CONSTANTS
    None = None
    PaymentId = p1
    Checkout = {1}
    Caller = {k1, k2}
    Currency = "KWD"
    Amount = 250
    ChargeAmounts = {None, 160}
    MaxAttempts = 2
    Reviewed = {1}
SPECIFICATION Spec
INVARIANTS
    TypeOK
    AppliedMoneyIsTrue
    OneCallMovesTheMoney
    ChargedAsAsked
    NoOutcomeLost
    SoleIntentStaysBound
PROPERTY ImplementsPaymentMoney
CHECK_DEADLOCK FALSE
