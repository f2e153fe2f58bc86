\* A payment prepared twice: webhooks of both checkouts, and polls.
CONSTANTS
    None = None
    PaymentId = p1
    Checkout = {1, 2}
    Caller = {}
    Currency = "PLN"
    Amount = 100
    ChargeAmounts = {}
    MaxAttempts = 1
    Reviewed = {}
SPECIFICATION FairSpec
INVARIANT NoOutcomeLost
PROPERTIES
    OutcomesReachPayment
    PaidPaymentGetsBound
CHECK_DEADLOCK FALSE
