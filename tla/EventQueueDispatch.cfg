SPECIFICATION Spec
CONSTANTS
    e1 = e1
    e2 = e2
    e3 = e3
    v1 = v1
    v2 = v2
    b1 = b1
    h1 = h1
    h2 = h2
    NoEvent = NoEvent
    Events = {e1, e2, e3}
    VsyncEvents = {}
    BarrierTasks = {}
    FrontEvents = {e3}
    Handlers = {h1, h2}
    OwnerOf <- DispatchOwner
    Priorities = {1, 2, 4}
    Delays = {0, 1}
    Lags = {0, 1}
    MaxHandledCount = 1
    MaxTime = 1
    Far = 10
    TimeMax = 12
    ObserverCosts = {0, 1}
    MaxPending = 2
    LazyModes = {}
    ForceWindows = {FALSE}
    Reuse = TRUE
SYMMETRY Symmetry
INVARIANTS
    TypeOK
    ListsInTimeOrder
    OrphansAreRemoved
    NoLostWakeUp
    BoundedOvertaking
PROPERTIES
    OrderKept
    IdleOnlyWhenNothingDue
