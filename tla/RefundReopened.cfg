\* A refund's events arriving out of order.
CONSTANTS
    Refund = {1, 2}
    Legacy = {1}
    MaxRepeats = 0
SPECIFICATION Spec
INVARIANT SettledWhenDelivered
CHECK_DEADLOCK FALSE
