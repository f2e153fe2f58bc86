\* A review opened before the payment is bound to its intent.
CONSTANTS
    None = None
    PaymentId = p1
    Checkout = {1}
    Caller = {}
    Currency = "ISK"
    Amount = 10000
    ChargeAmounts = {}
    MaxAttempts = 1
    Reviewed = {1}
SPECIFICATION Spec
INVARIANT DeliveredReviewsApplied
CHECK_DEADLOCK FALSE
