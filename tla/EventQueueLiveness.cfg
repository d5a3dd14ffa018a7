SPECIFICATION FairSpec
CONSTANTS
    e1 = e1
    e2 = e2
    e3 = e3
    v1 = v1
    v2 = v2
    b1 = b1
    h1 = h1
    h2 = h2
    NoEvent = NoEvent
    Events = {v1, b1, e1}
    VsyncEvents = {v1}
    BarrierTasks = {b1}
    FrontEvents = {}
    Handlers = {h1}
    OwnerOf <- LivenessOwner
    Priorities = {3}
    Delays = {0, 1}
    Lags = {0}
    MaxHandledCount = 1
    MaxTime = 1
    Far = 10
    TimeMax = 12
    ObserverCosts = {0}
    MaxPending = 2
    LazyModes = {FALSE}
    ForceWindows = {FALSE}
    Reuse = FALSE
PROPERTIES
    EventsAreServed
    FinishIsObeyed
