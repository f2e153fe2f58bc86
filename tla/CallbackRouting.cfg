\* Two payments and two checkouts, which may be of one payment, of both, or of
\* other software on the account.
CONSTANTS
    None = None
    Currency = "PLN"
    Payment = {p1, p2}
    Checkout = {1, 2}
SPECIFICATION FairSpec
INVARIANTS
    TypeOK
    OnlyOwnEvents
    RoutingAgrees
    NoSaleLost
PROPERTIES
    DeliveryReachesPayment
    EventsReachTheirPayment
CHECK_DEADLOCK FALSE
