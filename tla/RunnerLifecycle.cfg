SPECIFICATION FairSpec
CONSTANTS
    r1 = r1
    r2 = r2
    Runners = {r1, r2}
    KindOf <- OneOfEach
    Threads = {t1, t2}
    Clients = {c1}
    NoRunner = NoRunner
    NoThread = NoThread
    Exit = Exit
    Free = Free
    MaxRuns = 2
INVARIANTS
    TypeOK
    EveryThreadIsHeld
    CollectorJoinsEnding
    NoStrandedReclaim
    NoCollectorAfterStop
PROPERTIES
    ReleasedThreadsAreJoined
    ExitStopsAll
CHECK_DEADLOCK FALSE
