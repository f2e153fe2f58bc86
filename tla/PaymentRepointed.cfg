\* A late event of an abandoned checkout.
CONSTANTS
    None = None
    PaymentId = p1
    Checkout = {1, 2}
    Caller = {}
    Currency = "PLN"
    Amount = 100
    ChargeAmounts = {}
    MaxAttempts = 1
    Reviewed = {}
SPECIFICATION Spec
INVARIANT BoundToTheMoney
CHECK_DEADLOCK FALSE
