\* Two captures of one authorization, and a refund; no ops actions.
CONSTANTS
    None = None
    Currency = "PLN"
    Amount = 2
    Request = {q1, q2}
    Refund = {1, 2}
    Ops = {}
SPECIFICATION Spec
INVARIANT RefundsWithinCapture
CHECK_DEADLOCK FALSE
