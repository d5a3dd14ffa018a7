\* The static runtime, with two threads of the manager: events arrive.
SPECIFICATION FairSpec
CONSTANTS
    x = x
    o = o
    p1 = p1
    p2 = p2
    None = None
    Ids = {x}
    Objects = {o}
    ObjectOf <- OneId
    JsEnvs = {"j"}
    AniEnvs = {"w"}
    Callbacks = {"f"}
    Priorities = {p1}
    MaxListeners = 2
    MaxEvents = 2
    Scenarios <- OneByOne
    AttachMayFail = TRUE
    NullIsRead = FALSE
    Threads = {1, 2}
PROPERTY
    EveryEventArrives
CHECK_DEADLOCK FALSE
