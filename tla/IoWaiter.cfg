SPECIFICATION FairSpec
CONSTANTS
    Clients = {c1, c2}
    Waiters = {w1, w2, w3}
    NoWaiter = NoWaiter
    Runner = Runner
    Free = Free
INVARIANTS
    TypeOK
    NotificationIsKept
PROPERTIES
    ImplementsWaitNotify
