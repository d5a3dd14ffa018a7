SPECIFICATION FairSpec
CONSTANTS
    e1 = e1
    e2 = e2
    e3 = e3
    v1 = v1
    v2 = v2
    b1 = b1
    h1 = h1
    h2 = h2
    NoEvent = NoEvent
    Events = {e1, e2, e3}
    VsyncEvents = {}
    BarrierTasks = {}
    FrontEvents = {e3}
    Handlers = {h1, h2}
    OwnerOf <- DispatchOwner
    Priorities = {1, 3}
    Delays = {0}
    Lags = {0}
    MaxHandledCount = 1
    MaxTime = 1
    Far = 10
    TimeMax = 12
    ObserverCosts = {0}
    MaxPending = 2
    LazyModes = {}
    ForceWindows = {FALSE}
    Reuse = TRUE
PROPERTIES
    LowIsServed
