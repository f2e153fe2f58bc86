\* The slot while two refunds are in flight.
CONSTANTS
    Refund = {1, 2}
    Legacy = {1}
    MaxRepeats = 0
SPECIFICATION Spec
PROPERTY SlotHoldsLatestRefund
CHECK_DEADLOCK FALSE
