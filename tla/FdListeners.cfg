SPECIFICATION PlainFairSpec
CONSTANTS
    main = main
    ffrt = ffrt
    h1 = h1
    h2 = h2
    h3 = h3
    vsync = vsync
    plain = plain
    deamon = deamon
    task = task
    Deamon = Deamon
    Main = main
    None = None
    Queues = {main, ffrt}
    UsesDeamon = {ffrt}
    Handlers = {h1, h3}
    Mortal = {h1}
    QueueOf <- WithFFRT
    Listeners = {vsync, plain, task}
    OwnerOf <- OwnersFFRT
    VsyncListeners = {vsync}
    DeamonListeners = {}
    Fds = {1}
    AddMayFail = TRUE
    Scenarios <- Pairs
    TidyClients = FALSE
INVARIANTS
    TypeOK
    WatchedIsRegistered
    OrphanListenersAreRemoved
PROPERTIES
    PlainEventsAreHandled
