SPECIFICATION Spec
CONSTANTS
    h1 = h1
    h2 = h2
    h3 = h3
    r1 = r1
    r2 = r2
    e1 = e1
    e2 = e2
    None = None
    Runners = {r1, r2}
    Handlers = {h1, h2, h3}
    RunnerOf <- TwoRunners
    Clients = {"c"}
    Events = {e1, e2}
    Ids = {12}
    Params <- MCParams
    Names <- MCNames
    Priorities = {"LOW"}
    MaxCalls = 2
SYMMETRY Symmetry
INVARIANTS
    TypeOK
    PatternsAreFilters
PROPERTIES
    ImplementsEventDispatch
CHECK_DEADLOCK FALSE
