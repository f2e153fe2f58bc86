\* Three capture and cancel requests racing the ops endpoint, two refunds.
CONSTANTS
    None = None
    Currency = "PLN"
    Amount = 3
    Request = {q1, q2, q3}
    Refund = {1, 2}
    Ops = {"expire_auth", "fail_delayed", "settle_delayed"}
SPECIFICATION Spec
INVARIANTS
    TypeOK
    OneMoneyOutcome
    RefundsWithinAuthorization
    RefundEventsLegal
CHECK_DEADLOCK FALSE
