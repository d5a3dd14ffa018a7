SPECIFICATION Spec
CONSTANTS
    e1 = e1
    e2 = e2
    e3 = e3
    v1 = v1
    v2 = v2
    b1 = b1
    h1 = h1
    h2 = h2
    NoEvent = NoEvent
    Events = {v1, v2, b1, e1}
    VsyncEvents = {v1, v2}
    BarrierTasks = {b1}
    FrontEvents = {}
    Handlers = {h1, h2}
    OwnerOf <- VsyncOwner
    Priorities = {0, 3}
    Delays = {0}
    Lags = {0}
    MaxHandledCount = 1
    MaxTime = 0
    Far = 10
    TimeMax = 12
    ObserverCosts = {0}
    MaxPending = 3
    LazyModes = {TRUE, FALSE}
    ForceWindows = {TRUE, FALSE}
    Reuse = TRUE
INVARIANTS
    FrontTimesCoherent
    PendingVsyncCovers
    BarrierNeedsVsync
PROPERTY
    ImplementsEventDispatch
