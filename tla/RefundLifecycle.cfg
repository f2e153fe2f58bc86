\* Two refunds, one of them possibly recorded by an earlier release, with a
\* further Event object for one of their statuses.
CONSTANTS
    Refund = {1, 2}
    Legacy = {1}
    MaxRepeats = 1
SPECIFICATION FairSpec
INVARIANTS
    TypeOK
    TerminalRecordIsTrue
    OpenAttemptNotStuck
    CancelledOnce
    NoOutcomeLost
    IInv
PROPERTIES
    ImplementsRefundAttempt
    DeadAttemptCloses
    OutcomesReachPayment
CHECK_DEADLOCK FALSE
