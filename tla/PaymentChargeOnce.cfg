\* A charged authorization, its webhook and a poll.
CONSTANTS
    None = None
    PaymentId = p1
    Checkout = {1}
    Caller = {k1}
    Currency = "JPY"
    Amount = 10000
    ChargeAmounts = {None}
    MaxAttempts = 1
    Reviewed = {}
SPECIFICATION Spec
INVARIANT ChargeCapturedOnce
CHECK_DEADLOCK FALSE
