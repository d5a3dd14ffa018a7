\* Both runtimes: which calls are made, and which listeners leave.
SPECIFICATION Spec
CONSTANTS
    x = x
    o = o
    p1 = p1
    p2 = p2
    None = None
    Ids = {x}
    Objects = {o}
    ObjectOf <- OneId
    JsEnvs = {"j"}
    AniEnvs = {"w"}
    Callbacks = {"f"}
    Priorities = {p1, p2}
    MaxListeners = 2
    MaxEvents = 2
    Scenarios <- AllAtOnce
    AttachMayFail = FALSE
    NullIsRead = TRUE
    Threads = {1}
SYMMETRY Symmetry
INVARIANT
    TypeOK
PROPERTIES
    CallsAreDue
    ListenersStay
CHECK_DEADLOCK FALSE
