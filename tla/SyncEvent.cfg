SPECIFICATION FairSpec
CONSTANTS
    own = own
    lent = lent
    home = home
    client1 = client1
    client2 = client2
    h1 = h1
    h2 = h2
    e1 = e1
    e2 = e2
    e3 = e3
    None = None
    Threads = {home, client1, client2}
    Runners = {own, lent}
    Home <- Homes
    Handlers = {h1, h2}
    RunnerOf <- Handling
    Events = {e1, e2, e3}
    MaxCalls = 4
INVARIANTS
    TypeOK
    HandledInItsLoop
    CallbacksAreSerial
    ReturnsAfterHandling
PROPERTIES
    OnlyTheStuckWait
    ImplementsEventDispatch
CHECK_DEADLOCK FALSE
